---------------------------- MODULE Spec2Model ----------------------------
(***************************************************************************)
(* A model of the histdem tooling: the CSV -> TEI converter                *)
(* (convert_csv_to_tei.py) and the CSV auditor (validate_csv_data.py).     *)
(*                                                                         *)
(* Python strings are modelled as sequences of one-character strings, so   *)
(* that strip(), split(), replace(), endswith(), int() and the regular     *)
(* expression of markdown_to_tei are computed character by character.      *)
(* Python's None is the record None; a present value v is Some(v).         *)
(***************************************************************************)
EXTENDS Integers, Sequences, FiniteSets, TLC

VARIABLES
    pc,                   \* "idle", or the name of the function that has just run
    args,                 \* the arguments of that call
    ret,                  \* the value it returned
    conversion_warnings,  \* convert_csv_to_tei.py: the module-level warning list
    pre_warnings,         \* conversion_warnings as it was when the call began
    audit,                \* validate_csv_data.py: the locals of a running main()
    run                   \* convert_csv_to_tei.py: the locals of a running main()

vars == <<pc, args, ret, conversion_warnings, pre_warnings, audit, run>>

-----------------------------------------------------------------------------
(* Bounds of the model *)

\* most pieces (a space, a hyphen, a letter, or the separator ' - ') an
\* entry handed to parse_file_entry is made of
MaxEntryPieces == 5
\* most warnings collected before a run of the entry parser stops
MaxWarnings == 2
\* longest text handed to markdown_to_tei
MaxTextLen == 6
\* most dataset columns (after the two reserved ones) of a CSV row
MaxColumns == 3
\* most field rows (after the four header rows) of the CSV file
MaxDataRows == 2
\* most pieces (a letter, '_codes.csv', '_labels.csv' or ' - ') a CSV Codes
\* or CSV Labels entry is made of
MaxNamePieces == 3
\* longest value of 'Jahr', 'Datum Von' and 'Datum Bis'
MaxDateLen == 2
\* most pieces ('o:histdem.', a digit or a letter) a PID is made of
MaxPidPieces == 3
\* longest 'Datensatz ID' handed to the PID rule
MaxIdLen == 2
\* longest filename handed to check_file_exists
MaxFileNameLen == 1
\* most file-bearing fields filled in a record handed to validate_files_exist
MaxFilledFields == 2
\* most dataset columns of the CSV file the auditor reads
MaxRecords == 2
\* most pieces (a letter, a digit, '.', ' ', '-' or a known extension) a
\* filename handed to sanitize_xml_id and add_folder_prefix is made of
MaxIdPieces == 3
\* most names in the author clause of a 'Zitierempfehlung'
MaxAuthors == 4
\* most pieces (a letter, a space, a newline or a blank line) a 'Beschreibung'
\* is made of
MaxDescPieces == 4
\* most keys present in a nearly empty template, and most keys absent from a
\* nearly full one
MaxTemplateKeys == 1

-----------------------------------------------------------------------------
(* Python values *)

None == [some |-> FALSE, val |-> <<>>]
Some(v) == [some |-> TRUE, val |-> v]

NoArgs == [none |-> TRUE]
NoRet == [none |-> TRUE]
\* no run of the auditor under way
NoAudit == [none |-> TRUE]
\* no run of the converter under way
NoRun == [none |-> TRUE]

\* All strings over alphabet of length at most n
StringsUpTo(alphabet, n) == UNION {[1..k -> alphabet] : k \in 0..n}

SetMin(S) == CHOOSE x \in S : \A y \in S : x <= y
SetMax(S) == CHOOSE x \in S : \A y \in S : x >= y

\* str.isspace() of one character
IsSpace(c) == c \in {" ", "\t", "\n", "\r", "\f"}

\* str.strip(): leading and trailing whitespace removed
Strip(s) ==
    LET keep == {i \in 1..Len(s) : ~IsSpace(s[i])}
    IN  IF keep = {} THEN <<>> ELSE SubSeq(s, SetMin(keep), SetMax(keep))

\* str.find(sub) + 1: the 1-based index of the first occurrence, 0 when absent
Find(s, sub) ==
    LET hits == {i \in 1..(Len(s) - Len(sub) + 1) : SubSeq(s, i, i + Len(sub) - 1) = sub}
    IN  IF hits = {} THEN 0 ELSE SetMin(hits)

\* `sub in s`
Contains(s, sub) == Find(s, sub) # 0

\* a faulty split: at the last occurrence of sep (str.rsplit(sep, 1))
SplitLast1(s, sep) ==
    LET hits == {i \in 1..(Len(s) - Len(sep) + 1) : SubSeq(s, i, i + Len(sep) - 1) = sep}
        i == SetMax(hits)
    IN  <<SubSeq(s, 1, i - 1), SubSeq(s, i + Len(sep), Len(s))>>
\* s.split(sep, 1) for an s that contains sep: <<before, after>> the first sep
Split1(s, sep) ==
    LET i == Find(s, sep)
    IN  <<SubSeq(s, 1, i - 1), SubSeq(s, i + Len(sep), Len(s))>>

\* s.endswith(suffix)
EndsWith(s, suffix) ==
    /\ Len(suffix) <= Len(s)
    /\ SubSeq(s, Len(s) - Len(suffix) + 1, Len(s)) = suffix

\* s.replace(old, ""): every non-overlapping occurrence of old, left to right
RECURSIVE Remove(_, _)
Remove(s, old) ==
    LET i == Find(s, old)
    IN  IF i = 0 THEN s
        ELSE SubSeq(s, 1, i - 1) \o Remove(SubSeq(s, i + Len(old), Len(s)), old)

\* the separator of the 'filename - title' convention
SEP == <<" ", "-", " ">>

-----------------------------------------------------------------------------
(* convert_csv_to_tei.py: parse_file_entry *)

\* The three warnings of parse_file_entry.  The message text is kept as its
\* level (the leading token), the dataset id, the field name and the kind.
MissingTitle(field_name, dataset_id) ==
    [level |-> "WARNUNG", dataset |-> dataset_id, field |-> field_name,
     msg |-> "Fehlender Titel"]
EmptyFilename(field_name, dataset_id) ==
    [level |-> "FEHLER", dataset |-> dataset_id, field |-> field_name,
     msg |-> "Leerer Dateiname"]
EmptyTitle(field_name, dataset_id) ==
    [level |-> "WARNUNG", dataset |-> dataset_id, field |-> field_name,
     msg |-> "Leerer Titel"]

\* Faulty variants of parse_file_entry: without the test for a blank entry,
\* splitting at the last ' - ', and without the missing-title warning
ParseNoBlankCheck(entry, field_name, dataset_id) ==
    LET e == Strip(entry)
    IN  IF ~Contains(e, SEP)
        THEN [filename |-> Some(e), title |-> None,
              warn |-> <<MissingTitle(field_name, dataset_id)>>]
        ELSE [filename |-> Some(Strip(Split1(e, SEP)[1])),
              title |-> Some(Strip(Split1(e, SEP)[2])), warn |-> <<>>]
ParseSplitLast(entry, field_name, dataset_id) ==
    LET e == Strip(entry)
        parts == SplitLast1(e, SEP)
    IN  IF Strip(entry) = <<>> THEN [filename |-> None, title |-> None, warn |-> <<>>]
        ELSE IF ~Contains(e, SEP)
        THEN [filename |-> Some(e), title |-> None,
              warn |-> <<MissingTitle(field_name, dataset_id)>>]
        ELSE [filename |-> Some(Strip(parts[1])), title |-> Some(Strip(parts[2])),
              warn |-> <<>>]
ParseNoWarning(entry, field_name, dataset_id) ==
    LET e == Strip(entry)
    IN  IF e = <<>> THEN [filename |-> None, title |-> None, warn |-> <<>>]
        ELSE IF ~Contains(e, SEP)
        THEN [filename |-> Some(e), title |-> None, warn |-> <<>>]
        ELSE [filename |-> Some(Strip(Split1(e, SEP)[1])),
              title |-> Some(Strip(Split1(e, SEP)[2])), warn |-> <<>>]
\* parse_file_entry as a function of its arguments: the pair it returns and
\* the warnings it appends to conversion_warnings, in order.
parse_file_entry(entry, field_name, dataset_id) ==
    IF entry = <<>> \/ Strip(entry) = <<>>
    THEN [filename |-> None, title |-> None, warn |-> <<>>]
    ELSE
      LET e == Strip(entry)
      IN  IF ~Contains(e, SEP)
          THEN [filename |-> Some(e), title |-> None,
                warn |-> <<MissingTitle(field_name, dataset_id)>>]
          ELSE
            LET parts == Split1(e, SEP)
                filename == Strip(parts[1])
                title == Strip(parts[2])
            IN  IF filename = <<>>
                THEN [filename |-> None, title |-> None,
                      warn |-> <<EmptyFilename(field_name, dataset_id)>>]
                ELSE IF title = <<>>
                THEN [filename |-> Some(filename), title |-> None,
                      warn |-> <<EmptyTitle(field_name, dataset_id)>>]
                ELSE [filename |-> Some(filename), title |-> Some(title),
                      warn |-> <<>>]

\* The entries, field names and dataset ids the parser is called with.  The
\* letter "a" stands for any character that is neither whitespace nor '-'.
RECURSIVE Flatten(_)
Flatten(ps) == IF ps = <<>> THEN <<>> ELSE Head(ps) \o Flatten(Tail(ps))
EntryPieces == {<<" ">>, <<"-">>, <<"a">>, SEP}
Entries == {Flatten(ps) : ps \in StringsUpTo(EntryPieces, MaxEntryPieces)}
FieldNames == {"CSV Codes"}
DatasetIds == {"147", "999"}

\* One call of parse_file_entry, with its append to conversion_warnings
ParseFileEntry ==
    /\ pc = "idle"
    /\ Len(conversion_warnings) < MaxWarnings
    /\ \E entry \in Entries, f \in FieldNames, d \in DatasetIds :
         LET r == parse_file_entry(entry, f, d)
         IN  /\ args' = [entry |-> entry, field_name |-> f, dataset_id |-> d]
             /\ ret' = [filename |-> r.filename, title |-> r.title]
             /\ pre_warnings' = conversion_warnings
             /\ conversion_warnings' = conversion_warnings \o r.warn
    /\ pc' = "parse_file_entry"
    /\ UNCHANGED <<audit, run>>

\* The caller takes the result and goes on to its next field
EntryReturn ==
    /\ pc \in {"parse_file_entry", "validate_file_entry"}
    /\ pc' = "idle"
    /\ args' = NoArgs
    /\ ret' = NoRet
    /\ pre_warnings' = conversion_warnings
    /\ UNCHANGED <<audit, run>>
    /\ UNCHANGED conversion_warnings

\* main() resets the list at the start of a run
EntryInit ==
    /\ pc = "idle"
    /\ args = NoArgs
    /\ ret = NoRet
    /\ conversion_warnings = <<>>
    /\ pre_warnings = <<>>
    /\ audit = NoAudit
    /\ run = NoRun

EntryNext == ParseFileEntry \/ EntryReturn

SpecEntry == EntryInit /\ [][EntryNext]_vars

-----------------------------------------------------------------------------
(* convert_csv_to_tei.py: markdown_to_tei *)

STAR == "*"

\* The first match of the regular expression \*([^*]+)\* that starts at or
\* after position pos (1-based), as [start, end] of its two delimiters;
\* NoMatch when there is none.  A match starts at a '*' that is followed by
\* at least one character other than '*' and then a '*'.
NoMatch == [start |-> 0, end |-> 0]
NextMatch(text, pos) ==
    LET closing(i) == {j \in (i + 1)..Len(text) : text[j] = STAR}
        starts == {i \in pos..Len(text) :
                      /\ text[i] = STAR
                      /\ closing(i) # {}
                      /\ SetMin(closing(i)) >= i + 2}
    IN  IF starts = {} THEN NoMatch
        ELSE [start |-> SetMin(starts), end |-> SetMin(closing(SetMin(starts)))]

TextPart(content) == [type |-> "text", content |-> content]
ItalicPart(content) == [type |-> "italic", content |-> content]

\* a faulty variant of the loop below: the text after the last match is lost
RECURSIVE MdPartsNoRest(_, _)
MdPartsNoRest(text, pos) ==
    LET m == NextMatch(text, pos)
    IN  IF m = NoMatch THEN <<>>
        ELSE (IF m.start > pos
                THEN <<TextPart(SubSeq(text, pos, m.start - 1))>> ELSE <<>>)
             \o <<ItalicPart(SubSeq(text, m.start + 1, m.end - 1))>>
             \o MdPartsNoRest(text, m.end + 1)
\* The loop over re.finditer and the remainder after it, from current_pos
\* (0-based in the code) = pos - 1
RECURSIVE MdParts(_, _)
MdParts(text, pos) ==
    LET m == NextMatch(text, pos)
    IN  IF m = NoMatch
        THEN (IF pos - 1 < Len(text)
                THEN <<TextPart(SubSeq(text, pos, Len(text)))>> ELSE <<>>)
        ELSE (IF m.start > pos
                THEN <<TextPart(SubSeq(text, pos, m.start - 1))>> ELSE <<>>)
             \o <<ItalicPart(SubSeq(text, m.start + 1, m.end - 1))>>
             \o MdParts(text, m.end + 1)

\* a faulty variant of markdown_to_tei: an empty list for an empty text
MdEmptyList(text) == Some(MdParts(text, 1))
\* markdown_to_tei: None for an empty text, else the list of parts
markdown_to_tei(text) ==
    IF text = <<>> THEN None ELSE Some(MdParts(text, 1))

Texts == StringsUpTo({STAR, "a", "b"}, MaxTextLen)

\* One call of markdown_to_tei
MarkdownToTei ==
    /\ pc = "idle"
    /\ \E text \in Texts :
         /\ args' = [text |-> text]
         /\ ret' = markdown_to_tei(text)
    /\ pc' = "markdown_to_tei"
    /\ UNCHANGED <<conversion_warnings, pre_warnings, audit, run>>

\* The caller takes the parts
MarkupReturn ==
    /\ pc = "markdown_to_tei"
    /\ pc' = "idle"
    /\ args' = NoArgs
    /\ ret' = NoRet
    /\ UNCHANGED <<conversion_warnings, pre_warnings, audit, run>>

MarkupNext == MarkdownToTei \/ MarkupReturn

SpecMarkup == EntryInit /\ [][MarkupNext]_vars

-----------------------------------------------------------------------------
(* convert_csv_to_tei.py: parse_csv_column *)

\* A dict: a function from the keys it holds.  d[k] = v on a dict:
EmptyDict == <<>>
Put(d, k, v) == [x \in (DOMAIN d) \cup {k} |-> IF x = k THEN v ELSE d[x]]

\* row[from:] of a list (from is 0-based, as in the code)
SliceFrom(row, from) == SubSeq(row, from + 1, Len(row))

\* The dict filled from column col_idx (0-based) by the loop over rows[4:],
\* rows being those still to come
RECURSIVE RecordOfColumn(_, _, _)
RecordOfColumn(rows, col_idx, d) ==
    IF rows = <<>> THEN d
    ELSE
      LET row == Head(rows)
      IN  IF Len(row) < 2 \/ Strip(row[1]) = <<>>
          THEN RecordOfColumn(Tail(rows), col_idx, d)
          ELSE IF col_idx < Len(row) /\ Strip(row[col_idx + 1]) # <<>>
          THEN RecordOfColumn(Tail(rows), col_idx,
                              Put(d, Strip(row[1]), Strip(row[col_idx + 1])))
          ELSE RecordOfColumn(Tail(rows), col_idx, d)

\* parse_csv_column on the rows csv.reader gave: the list of dataset dicts
parse_csv_column(rows) ==
    LET dataset_headers == SliceFrom(rows[2], 2)
        num_datasets == Cardinality({h \in 1..Len(dataset_headers) :
                                        Strip(dataset_headers[h]) # <<>>})
    IN  [i \in 1..num_datasets |->
            RecordOfColumn(SliceFrom(rows, 4), (i - 1) + 2, EmptyDict)]

\* The rows of the CSV file: row 0 a legend, row 1 the dataset headers, rows
\* 2 and 3 legends, then the field rows
CsvFiles ==
    LET HeaderCells == {<<>>, <<" ">>, <<"H">>}
        FieldCells == {<<>>, <<"F">>, <<" ", "G">>}
        ValueCells == {<<>>, <<"x">>}
        LegendRow == <<<<"l">>, <<>>>>
        HeaderRows == {<<<<"h">>, <<>>>> \o hs :
                          hs \in StringsUpTo(HeaderCells, MaxColumns)}
        DataRows ==
            {<<>>} \cup {<<f>> : f \in FieldCells}
            \cup {<<f, <<>>>> \o vs :
                     f \in FieldCells, vs \in StringsUpTo(ValueCells, MaxColumns)}
    IN  {<<LegendRow, h, LegendRow, LegendRow>> \o ds :
            h \in HeaderRows, ds \in StringsUpTo(DataRows, MaxDataRows)}

\* One call of parse_csv_column
ParseCsvColumn ==
    /\ pc = "idle"
    /\ \E rows \in CsvFiles :
         /\ args' = [rows |-> rows]
         /\ ret' = parse_csv_column(rows)
    /\ pc' = "parse_csv_column"
    /\ UNCHANGED <<conversion_warnings, pre_warnings, audit, run>>

\* main() takes the datasets
LoaderReturn ==
    /\ pc = "parse_csv_column"
    /\ pc' = "idle"
    /\ args' = NoArgs
    /\ ret' = NoRet
    /\ UNCHANGED <<conversion_warnings, pre_warnings, audit, run>>

LoaderNext == ParseCsvColumn \/ LoaderReturn

SpecLoader == EntryInit /\ [][LoaderNext]_vars

-----------------------------------------------------------------------------
(* validate_csv_data.py: validate_csv_labels_match_codes *)

CODES_SUFFIX == <<"_", "c", "o", "d", "e", "s", ".", "c", "s", "v">>
LABELS_SUFFIX == <<"_", "l", "a", "b", "e", "l", "s", ".", "c", "s", "v">>

\* entry.split(' - ')[0].strip() if ' - ' in entry else entry.strip()
FilenameOf(entry) ==
    IF Contains(entry, SEP) THEN Strip(Split1(entry, SEP)[1]) ELSE Strip(entry)

\* the rule's return value: (len(issues) == 0, issues)
Verdict(issues) == [ok |-> Len(issues) = 0, issues |-> issues]

CodesSuffixIssue(codes_file) == [kind |-> "codes_suffix", file |-> codes_file]
LabelsSuffixIssue(labels_file) == [kind |-> "labels_suffix", file |-> labels_file]
BaseMismatchIssue(codes_base, labels_base) ==
    [kind |-> "base_mismatch", codes |-> codes_base, labels |-> labels_base]

validate_csv_labels_match_codes(codes_entry, labels_entry) ==
    IF codes_entry = <<>> \/ labels_entry = <<>> THEN Verdict(<<>>)
    ELSE
      LET codes_file == FilenameOf(codes_entry)
          labels_file == FilenameOf(labels_entry)
          codes_base == Remove(codes_file, CODES_SUFFIX)
          labels_base == Remove(Remove(labels_file, LABELS_SUFFIX), CODES_SUFFIX)
      IN  Verdict(
             (IF ~EndsWith(codes_file, CODES_SUFFIX)
                THEN <<CodesSuffixIssue(codes_file)>> ELSE <<>>)
          \o (IF ~EndsWith(labels_file, LABELS_SUFFIX)
                THEN <<LabelsSuffixIssue(labels_file)>> ELSE <<>>)
          \o (IF codes_base # labels_base
                THEN <<BaseMismatchIssue(codes_base, labels_base)>> ELSE <<>>))

NameEntries ==
    LET NamePieces == {<<"a">>, CODES_SUFFIX, LABELS_SUFFIX, SEP}
    IN  {Flatten(ps) : ps \in StringsUpTo(NamePieces, MaxNamePieces)}

\* One call of validate_csv_labels_match_codes
ValidateCsvLabelsMatchCodes ==
    /\ pc = "idle"
    /\ \E codes_entry \in NameEntries, labels_entry \in NameEntries :
         /\ args' = [codes_entry |-> codes_entry, labels_entry |-> labels_entry]
         /\ ret' = validate_csv_labels_match_codes(codes_entry, labels_entry)
    /\ pc' = "validate_csv_labels_match_codes"
    /\ UNCHANGED <<conversion_warnings, pre_warnings, audit, run>>

-----------------------------------------------------------------------------
(* validate_csv_data.py: validate_date_range *)

Digits == {"0", "1", "2", "3", "4", "5", "6", "7", "8", "9"}
DigitValue(c) ==
    CASE c = "0" -> 0 [] c = "1" -> 1 [] c = "2" -> 2 [] c = "3" -> 3
      [] c = "4" -> 4 [] c = "5" -> 5 [] c = "6" -> 6 [] c = "7" -> 7
      [] c = "8" -> 8 [] c = "9" -> 9

RECURSIVE DecimalValue(_)
DecimalValue(ds) ==
    IF ds = <<>> THEN 0
    ELSE 10 * DecimalValue(SubSeq(ds, 1, Len(ds) - 1)) + DigitValue(ds[Len(ds)])

\* int(s): surrounding whitespace dropped, an optional sign, then one or more
\* decimal digits; anything else raises ValueError (ok = FALSE).  Digit
\* grouping with '_' and non-ASCII digits, which int() also takes, are not
\* among the values drawn.
ParseInt(s) ==
    LET t == Strip(s)
        signed == t # <<>> /\ t[1] \in {"-", "+"}
        ds == IF signed THEN Tail(t) ELSE t
    IN  IF ds # <<>> /\ \A i \in 1..Len(ds) : ds[i] \in Digits
        THEN [ok |-> TRUE,
              val |-> IF signed /\ t[1] = "-" THEN 0 - DecimalValue(ds)
                      ELSE DecimalValue(ds)]
        ELSE [ok |-> FALSE, val |-> 0]

MissingToIssue(date_from) == [kind |-> "missing_to", value |-> date_from]
MissingFromIssue(date_to) == [kind |-> "missing_from", value |-> date_to]
OutOfRangeIssue(year, date_from, date_to) ==
    [kind |-> "out_of_range", year |-> year, from |-> date_from, to |-> date_to]

\* a faulty variant of the try block below: the bounds themselves excluded
YearExclusive(year, date_from, date_to) ==
    IF ParseInt(year).ok /\ ParseInt(date_from).ok /\ ParseInt(date_to).ok
    THEN IF ~(ParseInt(date_from).val < ParseInt(year).val
              /\ ParseInt(year).val < ParseInt(date_to).val)
         THEN <<OutOfRangeIssue(year, date_from, date_to)>> ELSE <<>>
    ELSE <<>>
\* the try block: the issue of a year outside the range, none on ValueError
YearInRange(year, date_from, date_to) ==
    LET year_int == ParseInt(year)
        from_int == ParseInt(date_from)
        to_int == ParseInt(date_to)
    IN  IF year_int.ok /\ from_int.ok /\ to_int.ok
        THEN IF ~(from_int.val <= year_int.val /\ year_int.val <= to_int.val)
             THEN <<OutOfRangeIssue(year, date_from, date_to)>> ELSE <<>>
        ELSE <<>>

validate_date_range(year, date_from, date_to) ==
    Verdict(
       (IF date_from # <<>> /\ date_to = <<>>
          THEN <<MissingToIssue(date_from)>> ELSE <<>>)
    \o (IF date_to # <<>> /\ date_from = <<>>
          THEN <<MissingFromIssue(date_to)>> ELSE <<>>)
    \o (IF date_from # <<>> /\ date_to # <<>> /\ year # <<>>
          THEN YearInRange(year, date_from, date_to) ELSE <<>>))

\* the values of 'Jahr' and of the two bounds
\* One call of validate_date_range
ValidateDateRange ==
    /\ pc = "idle"
    /\ \E year \in StringsUpTo({"1", "2", "x", "-"}, MaxDateLen),
          date_from \in StringsUpTo({"1", "2", "x"}, MaxDateLen),
          date_to \in StringsUpTo({"1", "2", "x"}, MaxDateLen) :
         /\ args' = [year |-> year, date_from |-> date_from, date_to |-> date_to]
         /\ ret' = validate_date_range(year, date_from, date_to)
    /\ pc' = "validate_date_range"
    /\ UNCHANGED <<conversion_warnings, pre_warnings, audit, run>>

\* --- rule 8 and rule 9 of main(): the PID of a record ---

PID_PREFIX == <<"o", ":", "h", "i", "s", "t", "d", "e", "m", ".">>

StartsWith(s, prefix) ==
    Len(s) >= Len(prefix) /\ SubSeq(s, 1, Len(prefix)) = prefix

\* re.match(r'^o:histdem\.\d+$', pid): the prefix, then one or more digits up
\* to the end; '$' also matches before one final newline
MatchesPidPattern(pid) ==
    /\ StartsWith(pid, PID_PREFIX)
    /\ LET rest == SubSeq(pid, Len(PID_PREFIX) + 1, Len(pid))
           ds == IF rest # <<>> /\ rest[Len(rest)] = "\n"
                 THEN SubSeq(rest, 1, Len(rest) - 1) ELSE rest
       IN  ds # <<>> /\ \A i \in 1..Len(ds) : ds[i] \in Digits

\* a faulty variant of the PID rule: the comparison with the record's id left out
PidRuleShapeOnly(pid, dataset_id) ==
    IF pid # <<>> /\ ~MatchesPidPattern(pid)
    THEN << [kind |-> "pid_format", pid |-> pid] >> ELSE <<>>
\* the issues the two PID checks append to dataset_issues
PidRule(pid, dataset_id) ==
       (IF pid # <<>> /\ ~MatchesPidPattern(pid)
          THEN << [kind |-> "pid_format", pid |-> pid] >> ELSE <<>>)
    \o (IF pid # <<>> /\ dataset_id # <<>>
          THEN LET expected_pid == PID_PREFIX \o dataset_id
               IN  IF pid # expected_pid
                   THEN << [kind |-> "pid_mismatch", pid |-> pid,
                             dataset_id |-> dataset_id,
                             expected |-> expected_pid] >>
                   ELSE <<>>
          ELSE <<>>)

\* The two PID checks of main() on one record, for the values of 'PID' and of
\* 'Datensatz ID' made of the prefix, digits and a letter
CheckPid ==
    /\ pc = "idle"
    /\ LET PidPieces == {PID_PREFIX, <<"1">>, <<"4">>, <<"x">>}
           PidValues == {Flatten(ps) : ps \in StringsUpTo(PidPieces, MaxPidPieces)}
           IdValues == StringsUpTo({"1", "4", "x"}, MaxIdLen)
       IN  \E pid \in PidValues, dataset_id \in IdValues :
             /\ args' = [pid |-> pid, dataset_id |-> dataset_id]
             /\ ret' = Verdict(PidRule(pid, dataset_id))
    /\ pc' = "pid_rule"
    /\ UNCHANGED <<conversion_warnings, pre_warnings, audit, run>>

\* main() of the auditor takes the verdict of a rule
RulesReturn ==
    /\ pc \in {"validate_csv_labels_match_codes", "validate_date_range", "pid_rule"}
    /\ pc' = "idle"
    /\ args' = NoArgs
    /\ ret' = NoRet
    /\ UNCHANGED <<conversion_warnings, pre_warnings, audit, run>>

RulesNext ==
    ValidateCsvLabelsMatchCodes \/ ValidateDateRange \/ CheckPid \/ RulesReturn

SpecRules == EntryInit /\ [][RulesNext]_vars

-----------------------------------------------------------------------------
(* The folder table and the file-existence rule of the auditor           *)
(* (src/validate_csv_data.py, check_file_exists, validate_files_exist)    *)

\* The table is the same in the converter and in the auditor.  A folder name
\* is never taken apart by the code, so it is written as one token.
DATASET_FOLDERS ==
       (<<"1", "4", "7">> :> "datafile_147_Serbia_1863")
    @@ (<<"2", "1">> :> "datafile_21_Albania_1918")
    @@ (<<"2", "6", "2">> :> "datafile_262_Montenegro_1879")
    @@ (<<"2", "6", "6">> :> "datafile_266_Armenians_in_Istanbul_1907")
    @@ (<<"1", "5", "3">> :> "datafile_153_Rhodope_mountains_around_1900")
    @@ (<<"2", "3", "4">> :> "datafile_234_Wallachia_1838")
    @@ (<<"1", "5", "4">> :> "datafile_154_Dalmatia_1674")
    @@ (<<"1", "6", "4">> :> "datafile_164_Istanbul_1907")
    @@ (<<"1", "6", "5">> :> "datafile_165_Istanbul_1885")
    @@ (<<"1", "5", "2">> :> "datafile_152_Hungary_1869")

\* DATASET_FOLDERS.get(str(dataset_id)): the folder, or None
FolderOf(dataset_id) ==
    IF dataset_id \in DOMAIN DATASET_FOLDERS
    THEN Some(DATASET_FOLDERS[dataset_id]) ELSE None

\* dataset.get(field, '')
Get(dataset, field) ==
    IF field \in DOMAIN dataset THEN dataset[field] ELSE <<>>

\* What is on the disk below base_path is the set of the paths that exist, a
\* path being <<folder>> or <<folder, filename>>; Path.exists() is membership.
\* The message of check_file_exists is a record naming its kind and its parts.

\* a faulty variant of check_file_exists: the folder itself is not looked at
CheckNoFolderTest(filename, dataset_id, disk) ==
    IF filename = <<>> THEN [exists |-> TRUE, msg |-> [kind |-> "empty"]]
    ELSE IF ~FolderOf(dataset_id).some
    THEN [exists |-> FALSE,
          msg |-> [kind |-> "no_mapping", dataset_id |-> dataset_id]]
    ELSE IF <<FolderOf(dataset_id).val, filename>> \notin disk
    THEN [exists |-> FALSE,
          msg |-> [kind |-> "not_found", folder |-> FolderOf(dataset_id).val,
                   filename |-> filename]]
    ELSE [exists |-> TRUE,
          msg |-> [kind |-> "path", path |-> <<FolderOf(dataset_id).val, filename>>]]
check_file_exists(filename, dataset_id, disk) ==
    IF filename = <<>> THEN [exists |-> TRUE, msg |-> [kind |-> "empty"]]
    ELSE LET folder == FolderOf(dataset_id)
         IN  IF ~folder.some
             THEN [exists |-> FALSE,
                   msg |-> [kind |-> "no_mapping", dataset_id |-> dataset_id]]
             ELSE LET folder_path == <<folder.val>>
                      file_path == <<folder.val, filename>>
                  IN  IF folder_path \notin disk
                      THEN [exists |-> FALSE,
                            msg |-> [kind |-> "no_folder", folder |-> folder.val]]
                      ELSE IF file_path \notin disk
                      THEN [exists |-> FALSE,
                            msg |-> [kind |-> "not_found", folder |-> folder.val,
                                     filename |-> filename]]
                      ELSE [exists |-> TRUE,
                            msg |-> [kind |-> "path", path |-> file_path]]

\* f'Zusatzdatei {i}' for i in range(1, 11) and f'Bild {i}' for i in range(1, 6)
ZusatzFields ==
    <<"Zusatzdatei 1", "Zusatzdatei 2", "Zusatzdatei 3", "Zusatzdatei 4",
      "Zusatzdatei 5", "Zusatzdatei 6", "Zusatzdatei 7", "Zusatzdatei 8",
      "Zusatzdatei 9", "Zusatzdatei 10">>
BildFields == <<"Bild 1", "Bild 2", "Bild 3", "Bild 4", "Bild 5">>

\* one block of validate_files_exist: the issue of one field, if any
FieldFileIssues(field, dataset, dataset_id, disk) ==
    LET value == Get(dataset, field)
        filename == FilenameOf(value)
    IN  IF value # <<>> /\ filename # <<>>
           /\ ~check_file_exists(filename, dataset_id, disk).exists
        THEN << [field |-> field,
                 msg |-> check_file_exists(filename, dataset_id, disk).msg] >>
        ELSE <<>>

\* the loops of validate_files_exist over numbered fields
RECURSIVE FieldsFileIssues(_, _, _, _)
FieldsFileIssues(fields, dataset, dataset_id, disk) ==
    IF fields = <<>> THEN <<>>
    ELSE FieldFileIssues(Head(fields), dataset, dataset_id, disk)
         \o FieldsFileIssues(Tail(fields), dataset, dataset_id, disk)

validate_files_exist(dataset, dataset_id, disk) ==
    Verdict(
       FieldFileIssues("CSV Codes", dataset, dataset_id, disk)
    \o FieldFileIssues("CSV Labels", dataset, dataset_id, disk)
    \o FieldsFileIssues(ZusatzFields, dataset, dataset_id, disk)
    \o FieldsFileIssues(BildFields, dataset, dataset_id, disk))

\* the disks with the folders of ids and the files 'a' and 'b', on which a
\* file exists only inside an existing folder
DisksOf(ids) ==
    LET DiskPaths ==
          {<<DATASET_FOLDERS[id]>> : id \in ids}
          \cup {<<DATASET_FOLDERS[id], f>> : id \in ids, f \in {<<"a">>, <<"b">>}}
    IN  {d \in SUBSET DiskPaths : \A p \in d : Len(p) = 2 => <<p[1]>> \in d}

\* the file-bearing fields in the order validate_files_exist visits them
FileFields == <<"CSV Codes", "CSV Labels">> \o ZusatzFields \o BildFields

\* the records with at most MaxFilledFields file-bearing fields filled
FileDatasets ==
    LET FileEntries == {<<"a">>, <<"b">> \o SEP \o <<"t">>, <<"c">>}
        FileFieldSet == {FileFields[i] : i \in 1..Len(FileFields)}
    IN  UNION {[fs -> FileEntries] :
                 fs \in {x \in SUBSET FileFieldSet :
                           Cardinality(x) <= MaxFilledFields}}

\* One call of check_file_exists, for filenames without '/', two mapped ids
\* and one that is not
CheckFileExists ==
    /\ pc = "idle"
    /\ \E filename \in StringsUpTo({"a", "b"}, MaxFileNameLen),
          dataset_id \in {<<"1", "4", "7">>, <<"2", "1">>, <<"9", "9", "9">>},
          disk \in DisksOf({<<"1", "4", "7">>, <<"2", "1">>}) :
         /\ args' = [filename |-> filename, dataset_id |-> dataset_id, disk |-> disk]
         /\ ret' = check_file_exists(filename, dataset_id, disk)
    /\ pc' = "check_file_exists"
    /\ UNCHANGED <<conversion_warnings, pre_warnings, audit, run>>

\* One call of validate_files_exist
ValidateFilesExist ==
    /\ pc = "idle"
    /\ \E dataset \in FileDatasets, dataset_id \in {<<"1", "4", "7">>, <<"9", "9", "9">>},
          disk \in DisksOf({<<"1", "4", "7">>}) :
         /\ args' = [dataset |-> dataset, dataset_id |-> dataset_id, disk |-> disk]
         /\ ret' = validate_files_exist(dataset, dataset_id, disk)
    /\ pc' = "validate_files_exist"
    /\ UNCHANGED <<conversion_warnings, pre_warnings, audit, run>>

\* the caller takes the result
FilesReturn ==
    /\ pc \in {"check_file_exists", "validate_files_exist"}
    /\ pc' = "idle"
    /\ args' = NoArgs
    /\ ret' = NoRet
    /\ UNCHANGED <<conversion_warnings, pre_warnings, audit, run>>

FilesNext == CheckFileExists \/ ValidateFilesExist \/ FilesReturn

SpecFiles == EntryInit /\ [][FilesNext]_vars

-----------------------------------------------------------------------------
(* The auditor's rules on single fields and its main loop                 *)
(* (src/validate_csv_data.py, validate_file_entry,                        *)
(* validate_required_fields, main)                                        *)

\* An issue is a record naming its kind and the values its text cites.
\* a faulty variant of validate_file_entry: the entry is not trimmed first
ValidateUntrimmed(entry, field_name) ==
    IF entry = <<>> \/ Strip(entry) = <<>> THEN Verdict(<<>>)
    ELSE IF Contains(entry, SEP)
    THEN Verdict((IF Strip(Split1(entry, SEP)[1]) = <<>>
                    THEN << [kind |-> "empty_filename"] >> ELSE <<>>)
              \o (IF Strip(Split1(entry, SEP)[2]) = <<>>
                    THEN << [kind |-> "empty_title"] >> ELSE <<>>))
    ELSE Verdict(<< [kind |-> "missing_title"] >>)
validate_file_entry(entry, field_name) ==
    IF entry = <<>> \/ Strip(entry) = <<>> THEN Verdict(<<>>)
    ELSE
      LET stripped == Strip(entry)
          has_sep == Contains(stripped, SEP)
          parts == Split1(stripped, SEP)
          filename == IF has_sep THEN Strip(parts[1]) ELSE stripped
          title == Strip(parts[2])
      IN  Verdict(
             (IF has_sep
                THEN (IF filename = <<>>
                        THEN << [kind |-> "empty_filename"] >> ELSE <<>>)
                  \o (IF title = <<>>
                        THEN << [kind |-> "empty_title"] >> ELSE <<>>)
                ELSE << [kind |-> "missing_title"] >>)
          \o (IF ~Contains(filename, <<".">>)
                THEN << [kind |-> "no_extension", filename |-> filename] >>
                ELSE <<>>)
          \o (IF EndsWith(filename, <<" ">>)
                THEN << [kind |-> "trailing_space"] >> ELSE <<>>)
          \o (IF StartsWith(filename, <<" ">>)
                THEN << [kind |-> "leading_space"] >> ELSE <<>>))

\* One call of validate_file_entry by the auditor's main()
ValidateFileEntry ==
    /\ pc = "idle"
    /\ \E entry \in Entries, field_name \in FieldNames :
         /\ args' = [entry |-> entry, field_name |-> field_name]
         /\ ret' = validate_file_entry(entry, field_name)
    /\ pc' = "validate_file_entry"
    /\ UNCHANGED <<conversion_warnings, pre_warnings, audit, run>>

\* the two readers of a file entry, each called on its own
GrammarNext == ParseFileEntry \/ ValidateFileEntry \/ EntryReturn

SpecGrammar == EntryInit /\ [][GrammarNext]_vars

required_fields ==
    <<"Datensatz ID", "Datensatz Titel", "Land", "PID", "Anzahl Personen",
      "Anzahl Haushalte", "Zitierempfehlung", "Schlagwörter", "Sprachcodes",
      "Überschrift", "Beschreibung">>

validate_required_fields(dataset) ==
    LET IsEmpty(field) == Strip(Get(dataset, field)) = <<>>
        empty == SelectSeq(required_fields, IsEmpty)
    IN  Verdict([i \in 1..Len(empty) |-> [kind |-> "required", field |-> empty[i]]])

\* str.split(sep): every piece between two occurrences of sep
RECURSIVE Split(_, _)
Split(s, sep) ==
    IF ~Contains(s, sep) THEN <<s>>
    ELSE <<Split1(s, sep)[1]>> \o Split(Split1(s, sep)[2], sep)

\* str.islower(): at least one cased character and no uppercase one
IsLower(s) ==
    LET LowerLetters ==
          {"a", "b", "c", "d", "e", "f", "g", "h", "i", "j", "k", "l", "m",
           "n", "o", "p", "q", "r", "s", "t", "u", "v", "w", "x", "y", "z"}
        UpperLetters ==
          {"A", "B", "C", "D", "E", "F", "G", "H", "I", "J", "K", "L", "M",
           "N", "O", "P", "Q", "R", "S", "T", "U", "V", "W", "X", "Y", "Z"}
    IN  /\ \E i \in 1..Len(s) : s[i] \in LowerLetters
        /\ \A i \in 1..Len(s) : s[i] \notin UpperLetters

\* rule 10 of main(): the issues of 'Sprachcodes'
LanguageIssues(lang_codes) ==
    IF lang_codes = <<>> THEN <<>>
    ELSE LET pieces == Split(lang_codes, <<",">>)
             codes == [i \in 1..Len(pieces) |-> Strip(pieces[i])]
             Wrong(code) == Len(code) # 2 \/ ~IsLower(code)
             wrong == SelectSeq(codes, Wrong)
         IN  [i \in 1..Len(wrong) |-> [kind |-> "language", code |-> wrong[i]]]

\* dataset_issues.append(f"{field}: {issue}") for every issue
Prefixed(field, issues) ==
    [i \in 1..Len(issues) |-> [field |-> field, msg |-> issues[i]]]

\* what main() adds to dataset_issues after a rule: its issues if not valid
IfNotValid(verdict) == IF ~verdict.ok THEN verdict.issues ELSE <<>>

\* rules 6 and 7 of main(): validate_file_entry on the numbered fields that
\* are filled
RECURSIVE NumberedEntryIssues(_, _)
NumberedEntryIssues(fields, dataset) ==
    IF fields = <<>> THEN <<>>
    ELSE LET field == Head(fields)
             value == Get(dataset, field)
         IN  (IF value # <<>>
                THEN Prefixed(field, IfNotValid(validate_file_entry(value, field)))
                ELSE <<>>)
             \o NumberedEntryIssues(Tail(fields), dataset)

UNKNOWN == <<"U", "n", "k", "n", "o", "w", "n">>

\* the body of the loop of main(): dataset_issues of one dataset
DatasetIssues(dataset, disk) ==
    LET dataset_id == IF "Datensatz ID" \in DOMAIN dataset
                      THEN dataset["Datensatz ID"] ELSE UNKNOWN
        csv_codes == Get(dataset, "CSV Codes")
        csv_labels == Get(dataset, "CSV Labels")
    IN     IfNotValid(validate_required_fields(dataset))
        \o Prefixed("CSV Codes", IfNotValid(validate_file_entry(csv_codes, "CSV Codes")))
        \o Prefixed("CSV Labels", IfNotValid(validate_file_entry(csv_labels, "CSV Labels")))
        \o (IF csv_codes # <<>> /\ csv_labels # <<>>
              THEN IfNotValid(validate_csv_labels_match_codes(csv_codes, csv_labels))
              ELSE <<>>)
        \o IfNotValid(validate_date_range(Get(dataset, "Jahr"),
                                          Get(dataset, "Datum Von"),
                                          Get(dataset, "Datum Bis")))
        \o NumberedEntryIssues(ZusatzFields, dataset)
        \o NumberedEntryIssues(BildFields, dataset)
        \o PidRule(Get(dataset, "PID"), dataset_id)
        \o LanguageIssues(Get(dataset, "Sprachcodes"))
        \o IfNotValid(validate_files_exist(dataset, dataset_id, disk))

\* a faulty variant of the count: the issues of a dataset are not added
TotalNotAdded(total_issues, dataset_issues) == total_issues
\* total_issues += len(dataset_issues)
TotalAfter(total_issues, dataset_issues) == total_issues + Len(dataset_issues)

\* a record of the CSV file that passes every rule
CleanRecord ==
       ("Datensatz ID" :> <<"1", "4", "7">>)
    @@ ("Datensatz Titel" :> <<"t">>) @@ ("Land" :> <<"t">>)
    @@ ("PID" :> PID_PREFIX \o <<"1", "4", "7">>)
    @@ ("Anzahl Personen" :> <<"1">>) @@ ("Anzahl Haushalte" :> <<"1">>)
    @@ ("Zitierempfehlung" :> <<"t">>) @@ ("Schlagwörter" :> <<"t">>)
    @@ ("Sprachcodes" :> <<"d", "e">>) @@ ("Überschrift" :> <<"t">>)
    @@ ("Beschreibung" :> <<"t">>)
    @@ ("CSV Codes" :> <<"a">> \o CODES_SUFFIX \o SEP \o <<"t">>)
    @@ ("CSV Labels" :> <<"a">> \o LABELS_SUFFIX \o SEP \o <<"t">>)
    @@ ("Jahr" :> <<"1", "2">>) @@ ("Datum Von" :> <<"1", "1">>)
    @@ ("Datum Bis" :> <<"1", "3">>)
    @@ ("Zusatzdatei 1" :> <<"z", ".", "p", "d", "f">> \o SEP \o <<"t">>)
    @@ ("Bild 1" :> <<"m", ".", "j", "p", "g">> \o SEP \o <<"t">>)

\* the records of the CSV file: CleanRecord, the records that differ from it
\* in one field, one that breaks the date rule and has an entry without a
\* title, and the record of a CSV file without the row 'Datensatz ID'
AuditRecords ==
    LET RecordEdits ==
          {<<"Land", <<>> >>,
           <<"PID", PID_PREFIX \o <<"9", "9">> >>, <<"PID", <<"x">> >>,
           <<"Datensatz ID", <<"9", "9", "9">> >>,
           <<"CSV Codes", <<"a">> \o CODES_SUFFIX>>,
           <<"CSV Labels", <<"b">> \o LABELS_SUFFIX \o SEP \o <<"t">> >>,
           <<"Jahr", <<"1", "4">> >>,
           <<"Zusatzdatei 1", <<"z">> >>,
           <<"Bild 1", <<>> >>,
           <<"Bild 2", <<"q", ".", "j", "p", "g">> \o SEP \o <<"t">> >>,
           <<"Sprachcodes", <<"d", "e", ",", " ", "e", "n">> >>,
           <<"Sprachcodes", <<"D", "E">> >>,
           <<"Sprachcodes", <<"d", "e", ",", "x">> >>}
        NoIdRecord ==
          [f \in (DOMAIN CleanRecord) \ {"Datensatz ID"} |-> CleanRecord[f]]
    IN  {CleanRecord, NoIdRecord,
         ("Jahr" :> <<"1", "4">>) @@ ("Zusatzdatei 1" :> <<"z">>) @@ CleanRecord}
        \cup {(e[1] :> e[2]) @@ CleanRecord : e \in RecordEdits}

\* the disk that holds every file CleanRecord names, and an empty one
AuditDisks ==
    LET folder == DATASET_FOLDERS[CleanRecord["Datensatz ID"]]
        FullDisk ==
          {<<folder>>} \cup
          {<<folder, FilenameOf(CleanRecord[f])>> :
             f \in {"CSV Codes", "CSV Labels", "Zusatzdatei 1", "Bild 1"}}
    IN  {FullDisk, {}}

\* main() up to the loop: the CSV file is read and 'datasets' is built
AuditStart ==
    /\ pc = "idle"
    /\ \E n \in 0..MaxRecords :
         \E datasets \in [1..n -> AuditRecords], disk \in AuditDisks :
           audit' = [datasets |-> datasets, disk |-> disk, done |-> 0,
                     total_issues |-> 0, datasets_with_issues |-> 0,
                     dataset_issues |-> <<>>]
    /\ pc' = "main"
    /\ UNCHANGED <<args, ret, conversion_warnings, pre_warnings, run>>

\* main() without a CSV file to read: sys.exit(1) before any dataset
AuditNoFile ==
    /\ pc = "idle"
    /\ pc' = "main_exit"
    /\ ret' = [exit_code |-> 1]
    /\ UNCHANGED <<args, conversion_warnings, pre_warnings, audit, run>>

\* one pass of the loop of main(): every rule on the next dataset
AuditDataset ==
    /\ pc = "main"
    /\ audit.done < Len(audit.datasets)
    /\ LET dataset == audit.datasets[audit.done + 1]
           dataset_issues == DatasetIssues(dataset, audit.disk)
       IN  audit' = [audit EXCEPT
                       !.done = @ + 1,
                       !.dataset_issues = dataset_issues,
                       !.datasets_with_issues =
                          IF dataset_issues # <<>> THEN @ + 1 ELSE @,
                       !.total_issues =
                          IF dataset_issues # <<>>
                          THEN TotalAfter(@, dataset_issues) ELSE @]
    /\ UNCHANGED <<pc, args, ret, conversion_warnings, pre_warnings, run>>

\* main() after the loop: the summary and the return value
AuditFinish ==
    /\ pc = "main"
    /\ audit.done = Len(audit.datasets)
    /\ pc' = "main_done"
    /\ ret' = [exit_code |-> IF audit.total_issues = 0 THEN 0 ELSE 1]
    /\ UNCHANGED <<args, conversion_warnings, pre_warnings, audit, run>>

\* sys.exit(main()): the process ends
AuditReturn ==
    /\ pc \in {"main_done", "main_exit"}
    /\ pc' = "idle"
    /\ ret' = NoRet
    /\ audit' = NoAudit
    /\ UNCHANGED <<args, conversion_warnings, pre_warnings, run>>

AuditNext ==
    AuditStart \/ AuditNoFile \/ AuditDataset \/ AuditFinish \/ AuditReturn

SpecAudit == EntryInit /\ [][AuditNext]_vars

-----------------------------------------------------------------------------
(* URLs and identifiers of the referenced files                           *)
(* (src/convert_csv_to_tei.py, get_dataset_folder, add_folder_prefix,     *)
(* sanitize_xml_id)                                                       *)

get_dataset_folder(dataset_id) ==
    IF dataset_id \in DOMAIN DATASET_FOLDERS
    THEN Some(DATASET_FOLDERS[dataset_id]) ELSE None

\* a faulty variant of add_folder_prefix: the folder without the leading '../'
PrefixWithoutDots(filename, dataset_id) ==
    IF get_dataset_folder(dataset_id).some /\ filename # <<>>
    THEN <<get_dataset_folder(dataset_id).val, "/">> \o filename
    ELSE filename
\* f"../{folder}/{filename}" if there is a folder and a filename
add_folder_prefix(filename, dataset_id) ==
    LET folder == get_dataset_folder(dataset_id)
    IN  IF folder.some /\ filename # <<>>
        THEN <<".", ".", "/", folder.val, "/">> \o filename
        ELSE filename

\* str.replace(old, new): every occurrence of old, left to right
RECURSIVE Replace(_, _, _)
Replace(s, old, new) ==
    LET i == Find(s, old)
    IN  IF i = 0 THEN s
        ELSE SubSeq(s, 1, i - 1) \o new
             \o Replace(SubSeq(s, i + Len(old), Len(s)), old, new)

sanitize_xml_id(filename) ==
    IF filename = <<>> THEN <<"i", "d", "_", "u", "n", "k", "n", "o", "w", "n">>
    ELSE LET without_ext ==
               Remove(Remove(Remove(Remove(Remove(Remove(filename,
                 <<".", "c", "s", "v">>), <<".", "p", "d", "f">>),
                 <<".", "j", "p", "g">>), <<".", "J", "P", "G">>),
                 <<".", "j", "p", "e", "g">>), <<".", "p", "n", "g">>)
             replaced ==
               Replace(Replace(Replace(without_ext,
                 <<" ">>, <<"_">>), <<".">>, <<"_">>), <<"-">>, <<"_">>)
             id_str == IF replaced # <<>> /\ replaced[1] \in Digits
                       THEN <<"_">> \o replaced ELSE replaced
         IN  IF id_str # <<>> THEN id_str
             ELSE <<"i", "d", "_", "u", "n", "k", "n", "o", "w", "n">>

\* One call of add_folder_prefix, for every key of the table and for ids that
\* are not keys
AddFolderPrefix ==
    /\ pc = "idle"
    /\ \E filename \in {Flatten(ps) :
                          ps \in StringsUpTo({<<"a">>, <<"/">>, <<".", "j", "p", "g">>},
                                             MaxIdPieces)},
          dataset_id \in (DOMAIN DATASET_FOLDERS)
                         \cup {<<>>, <<"9", "9", "9">>, <<"1", "4">>,
                               <<"1", "4", "7", "0">>, UNKNOWN} :
         /\ args' = [filename |-> filename, dataset_id |-> dataset_id]
         /\ ret' = add_folder_prefix(filename, dataset_id)
    /\ pc' = "add_folder_prefix"
    /\ UNCHANGED <<conversion_warnings, pre_warnings, audit, run>>

\* One call of sanitize_xml_id, for the filenames made of a letter, a digit,
\* a parenthesis, the replaced characters and the extensions the code names
SanitizeXmlId ==
    /\ pc = "idle"
    /\ LET IdPieces ==
             {<<"a">>, <<"1">>, <<"(">>, <<".">>, <<" ">>, <<"-">>,
              <<".", "c", "s", "v">>, <<".", "p", "d", "f">>,
              <<".", "j", "p", "g">>, <<".", "J", "P", "G">>,
              <<".", "j", "p", "e", "g">>, <<".", "p", "n", "g">>}
       IN  \E filename \in {Flatten(ps) : ps \in StringsUpTo(IdPieces, MaxIdPieces)} :
             /\ args' = [filename |-> filename]
             /\ ret' = sanitize_xml_id(filename)
    /\ pc' = "sanitize_xml_id"
    /\ UNCHANGED <<conversion_warnings, pre_warnings, audit, run>>

\* create_tei_document takes the URL or the identifier
NamesReturn ==
    /\ pc \in {"add_folder_prefix", "sanitize_xml_id"}
    /\ pc' = "idle"
    /\ args' = NoArgs
    /\ ret' = NoRet
    /\ UNCHANGED <<conversion_warnings, pre_warnings, audit, run>>

NamesNext == AddFolderPrefix \/ SanitizeXmlId \/ NamesReturn

SpecNames == EntryInit /\ [][NamesNext]_vars

-----------------------------------------------------------------------------
(* The document synthesizer (src/convert_csv_to_tei.py,                   *)
(* parse_citation_authors, create_tei_document)                           *)
(*                                                                         *)
(* An element is a record of its tag, its text (None if it has none), its  *)
(* attributes and its children.  A literal of the code that the code never *)
(* takes apart is written as one token, Lit("...").  The document is the   *)
(* record of the children of its parts; not modelled are the country and   *)
(* region of the source, the citation block, the prefix definitions, the   *)
(* languages and the keywords.                                             *)

Lit(literal) == <<literal>>

create_tei_element(tag, text, attrib) ==
    [tag |-> tag, text |-> IF text # <<>> THEN Some(text) ELSE None,
     attrib |-> attrib, children |-> <<>>]

\* parent.append(child) for every child
WithChildren(parent, children) ==
    [parent EXCEPT !.children = @ \o children]

\* the title element of add_title with the attributes that are given
add_title(title_text, level, lang, ref) ==
    create_tei_element("title", title_text,
          (IF level # <<>> THEN ("level" :> level) ELSE EmptyDict)
       @@ (IF lang # <<>> THEN ("xml:lang" :> lang) ELSE EmptyDict)
       @@ (IF ref # <<>> THEN ("ref" :> ref) ELSE EmptyDict))

\* the persName element of add_person_name
add_person_name(forename, surname) ==
    WithChildren(create_tei_element("persName", <<>>, EmptyDict),
                 <<create_tei_element("forename", forename, EmptyDict),
                   create_tei_element("surname", surname, EmptyDict)>>)

\* re.match(r'^([^.]+?)\.', text), else re.match(r'^([^*]+)\*', text): the
\* text before the first '.', or before the first '*', if it is not empty
parse_citation_authors(citation_text) ==
    LET dot == Find(citation_text, <<".">>)
        star == Find(citation_text, <<STAR>>)
        author_match ==
          IF dot > 1 THEN Some(SubSeq(citation_text, 1, dot - 1))
          ELSE IF star > 1 THEN Some(SubSeq(citation_text, 1, star - 1))
          ELSE None
    IN  IF citation_text = <<>> \/ ~author_match.some THEN <<>>
        ELSE LET author_part ==
                   Replace(Strip(author_match.val),
                           <<" ", "a", "n", "d", " ">>, <<",", " ">>)
                 pieces == Split(author_part, <<",">>)
                 names == [i \in 1..Len(pieces) |-> Strip(pieces[i])]
                 NotEmpty(a) == a # <<>>
             IN  SelectSeq(names, NotEmpty)

\* str.split(): the runs of characters between whitespace
RECURSIVE Tokens(_)
Tokens(s) ==
    LET t == Strip(s)
        spaces == {i \in 1..Len(t) : IsSpace(t[i])}
    IN  IF t = <<>> THEN <<>>
        ELSE IF spaces = {} THEN <<t>>
        ELSE <<SubSeq(t, 1, SetMin(spaces) - 1)>>
             \o Tokens(SubSeq(t, SetMin(spaces) + 1, Len(t)))

\* sep.join(parts)
RECURSIVE Join(_, _)
Join(parts, sep) ==
    IF parts = <<>> THEN <<>>
    ELSE IF Len(parts) = 1 THEN parts[1]
    ELSE parts[1] \o sep \o Join(Tail(parts), sep)

EditorElement(forename, surname) ==
    WithChildren(
      create_tei_element("editor", <<>>, ("ana" :> Lit("marcrelator:edt"))),
      <<add_person_name(forename, surname)>>)

\* the loop over author_names[:3]: an editor for a name of two or more tokens
RECURSIVE EditorsOf(_)
EditorsOf(author_names) ==
    IF author_names = <<>> THEN <<>>
    ELSE LET name_parts == Tokens(Strip(Head(author_names)))
         IN  (IF Len(name_parts) >= 2
                THEN <<EditorElement(
                         Join(SubSeq(name_parts, 1, Len(name_parts) - 1), <<" ">>),
                         name_parts[Len(name_parts)])>>
                ELSE <<>>)
             \o EditorsOf(Tail(author_names))

\* a faulty variant of the editors: the placeholder left out
EditorsNoPlaceholder(citation_text) ==
    EditorsOf(SubSeq(parse_citation_authors(citation_text), 1,
                     IF Len(parse_citation_authors(citation_text)) < 3
                     THEN Len(parse_citation_authors(citation_text)) ELSE 3))
\* the editors of the title statement
Editors(citation_text) ==
    LET author_names == parse_citation_authors(citation_text)
    IN  IF author_names # <<>>
        THEN EditorsOf(SubSeq(author_names, 1,
                              IF Len(author_names) < 3 THEN Len(author_names) ELSE 3))
        ELSE <<EditorElement(Lit("FIRST"), Lit("LAST"))>>

\* template_data.get(key, default)
GetOr(d, key, default) == IF key \in DOMAIN d THEN d[key] ELSE default

\* the children of titleStmt
TitleStmt(dataset, template_data) ==
    LET dataset_title == GetOr(dataset, "Datensatz Titel", Lit("Untitled Dataset"))
        dataset_id == GetOr(dataset, "Datensatz ID", <<"0", "0", "0">>)
        funder_name == GetOr(template_data, "funder_name",
                             Lit("Austrian Science Fund (FWF)"))
        funder_ref == GetOr(template_data, "funder_ref",
                            Lit("https://www.fwf.ac.at/de/"))
        funder_num == GetOr(template_data, "funder_num", Lit("P 38285-G"))
    IN  <<add_title(<<"N", "r", ".", " ">> \o dataset_id \o <<":", " ">>
                    \o dataset_title, <<>>, <<>>, <<>>)>>
        \o Editors(Get(dataset, "Zitierempfehlung"))
        \o <<WithChildren(
               create_tei_element("respStmt", <<>>, ("ana" :> Lit("marcrelator:mrk"))),
               <<create_tei_element("resp", Lit("XML encoding"), EmptyDict),
                 add_person_name(Lit("Christian"), Lit("Steiner"))>>),
             WithChildren(
               create_tei_element("funder", <<>>, ("ana" :> Lit("marcrelator:fnd"))),
               <<create_tei_element("orgName", funder_name, ("ref" :> funder_ref)),
                 create_tei_element("num", funder_num, EmptyDict)>>)>>

\* the children of publicationStmt
PublicationStmt(dataset, template_data) ==
    LET dataset_id == GetOr(dataset, "Datensatz ID", <<"0", "0", "0">>)
        OrgName(name, attr, value) ==
            create_tei_element("orgName", name, (attr :> value))
    IN  <<WithChildren(
            create_tei_element("publisher", <<>>, EmptyDict),
            <<OrgName(GetOr(template_data, "publisher_name",
                            Lit("Institut für Geschichte, Universität Graz")),
                      "corresp",
                      GetOr(template_data, "publisher_corresp",
                            Lit("http://geschichte.uni-graz.at/")))>>),
          WithChildren(
            create_tei_element("authority", <<>>, ("ana" :> Lit("marcrelator:his"))),
            <<OrgName(GetOr(template_data, "authority_name",
                            Lit("Digital Humanities Craft OG")),
                      "corresp",
                      GetOr(template_data, "authority_corresp",
                            Lit("https://dhcraft.org")))>>),
          WithChildren(
            create_tei_element("authority", <<>>, ("ana" :> Lit("marcrelator:his"))),
            <<OrgName(Lit("Institut für Digitale Geisteswissenschaften, Universität Graz"),
                      "ref", Lit("https://digital-humanities.uni-graz.at"))>>),
          WithChildren(
            create_tei_element("distributor", <<>>, ("ana" :> Lit("marcrelator:rps"))),
            <<OrgName(GetOr(template_data, "distributor_name",
                            Lit("GAMS - Geisteswissenschaftliches Asset Management System")),
                      "ref",
                      GetOr(template_data, "distributor_ref",
                            Lit("https://gams.uni-graz.at")))>>),
          WithChildren(
            create_tei_element("availability", <<>>, EmptyDict),
            <<create_tei_element("licence",
                GetOr(template_data, "license_text", Lit("Creative Commons BY-NC 4.0")),
                ("target" :> GetOr(template_data, "license_target",
                                   Lit("https://creativecommons.org/licenses/by-nc/4.0"))))>>),
          create_tei_element("date", Lit("2025"),
                             ("when" :> Lit("2025")) @@ ("ana" :> Lit("dcterms:issued"))),
          create_tei_element("pubPlace", GetOr(template_data, "pub_place", Lit("Graz")),
                             ("ana" :> Lit("marcrelator:pup"))),
          create_tei_element("idno", GetOr(dataset, "PID", PID_PREFIX \o dataset_id),
                             ("type" :> Lit("PID")))>>

\* the children of seriesStmt
SeriesStmt(template_data) ==
    LET series_titles == GetOr(template_data, "series_titles", <<>>)
    IN  [i \in 1..Len(series_titles) |->
           add_title(series_titles[i].text, <<>>, series_titles[i].lang,
                     series_titles[i].ref)]
        \o (IF "project_director" \in DOMAIN template_data
              THEN LET pdr == template_data["project_director"]
                   IN  <<WithChildren(
                           create_tei_element("respStmt", <<>>,
                                              ("ana" :> Lit("marcrelator:pdr"))),
                           <<create_tei_element("resp", pdr.resp, EmptyDict),
                             add_person_name(pdr.forename, pdr.surname)>>)>>
              ELSE <<>>)
        \o (IF "research_team" \in DOMAIN template_data
              THEN LET team == template_data["research_team"]
                   IN  <<WithChildren(
                           create_tei_element("respStmt", <<>>,
                                              ("ana" :> Lit("marcrelator:rth"))),
                           <<create_tei_element("resp", team.resp, EmptyDict),
                             create_tei_element("orgName", team.name,
                                                ("ref" :> team.ref))>>)>>
              ELSE <<>>)

\* the children of projectDesc
ProjectDesc(template_data) ==
    LET paragraphs == GetOr(template_data, "project_desc_paragraphs", <<>>)
    IN  (IF "project_context_ref" \in DOMAIN template_data
           THEN LET ref_data == template_data["project_context_ref"]
                IN  <<WithChildren(
                        create_tei_element("ab", <<>>, EmptyDict),
                        <<create_tei_element("ref", ref_data.text,
                            ("target" :> ref_data.target) @@ ("type" :> ref_data.type))>>)>>
           ELSE <<>>)
        \o [i \in 1..Len(paragraphs) |->
              create_tei_element("p", paragraphs[i], EmptyDict)]

\* a faulty variant of the date of the source: 'Jahr' before the range
SourceDateYearFirst(dataset) ==
    IF Get(dataset, "Jahr") # <<>>
    THEN create_tei_element("date", Get(dataset, "Jahr"),
           ("when" :> Get(dataset, "Jahr")) @@ ("ana" :> Lit("dcterms:created")))
    ELSE IF Get(dataset, "Datum Von") # <<>> /\ Get(dataset, "Datum Bis") # <<>>
    THEN create_tei_element("date",
           Get(dataset, "Datum Von") \o <<"-">> \o Get(dataset, "Datum Bis"),
           ("from" :> Get(dataset, "Datum Von")) @@ ("to" :> Get(dataset, "Datum Bis"))
           @@ ("ana" :> Lit("dcterms:created")))
    ELSE create_tei_element("date", Lit("YEAR"),
           ("when" :> Lit("YEAR")) @@ ("ana" :> Lit("dcterms:created")))
\* the date element of the source description
SourceDate(dataset) ==
    LET year_val == Get(dataset, "Jahr")
        date_from == Get(dataset, "Datum Von")
        date_to == Get(dataset, "Datum Bis")
    IN  IF date_from # <<>> /\ date_to # <<>>
        THEN create_tei_element("date", date_from \o <<"-">> \o date_to,
               ("from" :> date_from) @@ ("to" :> date_to)
               @@ ("ana" :> Lit("dcterms:created")))
        ELSE IF year_val # <<>>
        THEN create_tei_element("date", year_val,
               ("when" :> year_val) @@ ("ana" :> Lit("dcterms:created")))
        ELSE create_tei_element("date", Lit("YEAR"),
               ("when" :> Lit("YEAR")) @@ ("ana" :> Lit("dcterms:created")))

\* str.lower()
ToLower(s) ==
    LET UpperSeq ==
          <<"A", "B", "C", "D", "E", "F", "G", "H", "I", "J", "K", "L", "M",
            "N", "O", "P", "Q", "R", "S", "T", "U", "V", "W", "X", "Y", "Z">>
        LowerSeq ==
          <<"a", "b", "c", "d", "e", "f", "g", "h", "i", "j", "k", "l", "m",
            "n", "o", "p", "q", "r", "s", "t", "u", "v", "w", "x", "y", "z">>
    IN  [i \in 1..Len(s) |->
           IF \E k \in 1..26 : UpperSeq[k] = s[i]
           THEN LowerSeq[CHOOSE k \in 1..26 : UpperSeq[k] = s[i]] ELSE s[i]]

\* A MIME type is written as its part up to the '/' and the rest.
\* mime_map.get(ext, 'image/jpeg')
mime_map(ext) ==
    IF ext \in {<<"j", "p", "g">>, <<"j", "p", "e", "g">>} THEN <<"image/", "jpeg">>
    ELSE IF ext = <<"p", "n", "g">> THEN <<"image/", "png">>
    ELSE IF ext = <<"p", "d", "f">> THEN <<"application/", "pdf">>
    ELSE <<"image/", "jpeg">>

\* the element that points to a file
FileElement(tag, file_url, mime_type, media_id) ==
    create_tei_element(tag, <<>>,
      ("url" :> file_url) @@ ("mimeType" :> mime_type) @@ ("xml:id" :> media_id))

\* title or default
TitleOr(title, default) ==
    IF title.some /\ title.val # <<>> THEN title.val ELSE default

\* the rs element of 'CSV Codes' or 'CSV Labels', if the entry has a filename
DataRs(dataset, field, rs_type, default_title, dataset_id) ==
    LET value == Get(dataset, field)
        parsed == parse_file_entry(value, field, dataset_id)
    IN  IF value # <<>> /\ parsed.filename.some /\ parsed.filename.val # <<>>
        THEN <<WithChildren(
                 create_tei_element("rs", <<>>, ("type" :> Lit(rs_type))),
                 <<add_title(TitleOr(parsed.title, Lit(default_title)), <<>>, <<>>, <<>>),
                   FileElement("media",
                               add_folder_prefix(parsed.filename.val, dataset_id),
                               <<"text/", "csv">>, sanitize_xml_id(parsed.filename.val))>>)>>
        ELSE <<>>

\* the rs element of one 'Zusatzdatei', if the entry has a filename
ZusatzRs(dataset, field, dataset_id) ==
    LET value == Get(dataset, field)
        parsed == parse_file_entry(value, field, dataset_id)
        filename == parsed.filename.val
        is_sample == /\ parsed.title.some /\ parsed.title.val # <<>>
                     /\ Contains(ToLower(parsed.title.val),
                                 <<"s", "a", "m", "p", "l", "e">>)
    IN  IF value # <<>> /\ parsed.filename.some /\ filename # <<>>
        THEN <<WithChildren(
                 create_tei_element("rs", <<>>,
                   ("type" :> IF is_sample THEN Lit("sample") ELSE Lit("literature"))),
                 <<add_title(TitleOr(parsed.title, filename), <<>>, <<>>, <<>>),
                   FileElement("media", add_folder_prefix(filename, dataset_id),
                               IF EndsWith(filename, <<".", "p", "d", "f">>)
                               THEN <<"application/", "pdf">>
                               ELSE <<"application/", "octet-stream">>,
                               sanitize_xml_id(filename))>>)>>
        ELSE <<>>

\* the rs element of one 'Bild', if the entry has a filename
BildRs(dataset, field, dataset_id) ==
    LET value == Get(dataset, field)
        parsed == parse_file_entry(value, field, dataset_id)
        filename == parsed.filename.val
        is_map == /\ parsed.title.some /\ parsed.title.val # <<>>
                  /\ \/ Contains(ToLower(parsed.title.val), <<"m", "a", "p">>)
                     \/ Contains(ToLower(parsed.title.val), <<"k", "a", "r", "t", "e">>)
        pieces == Split(filename, <<".">>)
        ext == ToLower(pieces[Len(pieces)])
        mime_type == mime_map(ext)
    IN  IF value # <<>> /\ parsed.filename.some /\ filename # <<>>
        THEN <<WithChildren(
                 create_tei_element("rs", <<>>,
                   ("type" :> IF is_map THEN Lit("map") ELSE Lit("scan"))),
                 <<add_title(TitleOr(parsed.title, filename), <<>>, <<>>, <<>>),
                   FileElement(IF StartsWith(mime_type, <<"image/">>)
                               THEN "graphic" ELSE "media",
                               add_folder_prefix(filename, dataset_id),
                               mime_type, sanitize_xml_id(filename))>>)>>
        ELSE <<>>

RECURSIVE ZusatzElements(_, _, _)
ZusatzElements(fields, dataset, dataset_id) ==
    IF fields = <<>> THEN <<>>
    ELSE ZusatzRs(dataset, Head(fields), dataset_id)
         \o ZusatzElements(Tail(fields), dataset, dataset_id)

RECURSIVE BildElements(_, _, _)
BildElements(fields, dataset, dataset_id) ==
    IF fields = <<>> THEN <<>>
    ELSE BildRs(dataset, Head(fields), dataset_id)
         \o BildElements(Tail(fields), dataset, dataset_id)

\* literature without a file: an rs element with the title alone
RECURSIVE LiteraturElements(_, _)
LiteraturElements(fields, dataset) ==
    IF fields = <<>> THEN <<>>
    ELSE (IF Get(dataset, Head(fields)) # <<>>
            THEN <<WithChildren(
                     create_tei_element("rs", <<>>, ("type" :> Lit("literature"))),
                     <<add_title(Get(dataset, Head(fields)), <<>>, <<>>, <<>>)>>)>>
            ELSE <<>>)
         \o LiteraturElements(Tail(fields), dataset)

\* what the calls of parse_file_entry in create_tei_document append to
\* conversion_warnings, in the order of the calls
RECURSIVE EntryWarnings(_, _, _)
EntryWarnings(fields, dataset, dataset_id) ==
    IF fields = <<>> THEN <<>>
    ELSE (IF Get(dataset, Head(fields)) # <<>>
            THEN parse_file_entry(Get(dataset, Head(fields)), Head(fields),
                                  dataset_id).warn
            ELSE <<>>)
         \o EntryWarnings(Tail(fields), dataset, dataset_id)

\* a faulty variant of the body: the note alone, without head and paragraphs
BodyNoPlaceholder(dataset) ==
    <<create_tei_element("note",
        IF Get(dataset, "Anmerkungen") # <<>> THEN Get(dataset, "Anmerkungen")
        ELSE Lit("No additional notes."), EmptyDict)>>
\* the children of body
Body(dataset) ==
    LET country == GetOr(dataset, "Land", Lit("COUNTRY"))
        year_val == GetOr(dataset, "Jahr", Lit("None"))
        head_text == GetOr(dataset, "Überschrift", country \o <<" ">> \o year_val)
        description == Get(dataset, "Beschreibung")
        paragraphs == IF Contains(description, <<"\n", "\n">>)
                      THEN Split(description, <<"\n", "\n">>) ELSE <<description>>
        NotBlank(para) == Strip(para) # <<>>
        kept == SelectSeq(paragraphs, NotBlank)
        notes == Get(dataset, "Anmerkungen")
    IN  <<create_tei_element("head", head_text, EmptyDict)>>
        \o (IF description # <<>>
              THEN [i \in 1..Len(kept) |->
                      create_tei_element("p", Strip(kept[i]), EmptyDict)]
              ELSE <<create_tei_element("p", Lit("Description pending."), EmptyDict)>>)
        \o <<create_tei_element("note",
               IF notes # <<>> THEN notes ELSE Lit("No additional notes."),
               EmptyDict)>>

\* the document: the children of each of its parts
create_tei_document(dataset, template_data) ==
    LET dataset_id == GetOr(dataset, "Datensatz ID", <<"0", "0", "0">>)
    IN  [title_stmt |-> TitleStmt(dataset, template_data),
         pub_stmt |-> PublicationStmt(dataset, template_data),
         series_stmt |-> SeriesStmt(template_data),
         source_bibl |-> <<SourceDate(dataset)>>,
         data_bibl |-> DataRs(dataset, "CSV Codes", "codes", "Data with Codes",
                              dataset_id)
                       \o DataRs(dataset, "CSV Labels", "labels", "Data with Labels",
                                 dataset_id),
         additional_bibl |-> ZusatzElements(ZusatzFields, dataset, dataset_id)
                             \o BildElements(BildFields, dataset, dataset_id)
                             \o LiteraturElements(
                                  <<"Literatur 1", "Literatur 2", "Literatur 3",
                                    "Literatur 4">>, dataset),
         project_desc |-> ProjectDesc(template_data),
         body |-> Body(dataset)]

\* the template extracted from a complete exemplar document
FullTemplate ==
       ("funder_name" :> Lit("template funder"))
    @@ ("funder_ref" :> Lit("template funder ref"))
    @@ ("funder_num" :> Lit("template funder num"))
    @@ ("publisher_name" :> Lit("template publisher"))
    @@ ("publisher_corresp" :> Lit("template publisher corresp"))
    @@ ("authority_name" :> Lit("template authority"))
    @@ ("authority_corresp" :> Lit("template authority corresp"))
    @@ ("distributor_name" :> Lit("template distributor"))
    @@ ("distributor_ref" :> Lit("template distributor ref"))
    @@ ("license_text" :> Lit("template license"))
    @@ ("license_target" :> Lit("template license target"))
    @@ ("pub_place" :> Lit("template place"))
    @@ ("series_titles" :>
          <<[text |-> Lit("template series"), ref |-> Lit("template series ref"),
             lang |-> Lit("en")],
            [text |-> Lit("template Reihe"), ref |-> <<>>, lang |-> Lit("de")]>>)
    @@ ("project_director" :>
          [resp |-> Lit("Project director"), forename |-> Lit("template forename"),
           surname |-> Lit("template surname")])
    @@ ("research_team" :>
          [resp |-> Lit("Research team"), name |-> Lit("template team"),
           ref |-> Lit("template team ref")])
    @@ ("project_desc_paragraphs" :> <<Lit("template paragraph")>>)
    @@ ("project_context_ref" :>
          [text |-> Lit("template context"), target |-> Lit("context:histdem"),
           type |-> Lit("context")])

\* the templates drawn: nearly empty ones and nearly full ones
Templates ==
    {[k \in keys |-> FullTemplate[k]] :
       keys \in {ks \in SUBSET DOMAIN FullTemplate :
                   \/ Cardinality(ks) <= MaxTemplateKeys
                   \/ Cardinality((DOMAIN FullTemplate) \ ks) <= MaxTemplateKeys}}

\* the record with the field set to the value, or without the field
With(dataset, field, value) ==
    IF value.some THEN (field :> value.val) @@ dataset
    ELSE [f \in (DOMAIN dataset) \ {field} |-> dataset[f]]

Optional(values) == {None} \cup {Some(v) : v \in values}

\* the records drawn: CleanRecord with the fields of one part of the document
\* varied.  'Zitierempfehlung' has up to MaxAuthors names, joined by ', ' or
\* ' and ', then '.', '*' or nothing; 'Beschreibung' is trimmed, as the loader
\* leaves it.
SynthDatasets ==
    LET AuthorNames == {<<"a">>, <<"a", " ", "b">>, <<"a", " ", " ", "b", " ", "c">>}
        Citations ==
          {Strip(Join(names, sep) \o end) :
             names \in StringsUpTo(AuthorNames, MaxAuthors),
             sep \in {<<",", " ">>, <<" ", "a", "n", "d", " ">>},
             end \in {<<".">>, <<STAR, "t", STAR>>, <<>>}}
        DateFieldValues == Optional({<<>>, <<"1">>, <<"2">>})
        FileNames ==
          {<<"m", ".", "j", "p", "g">>, <<"m", ".", "J", "P", "G">>,
           <<"m", ".", "j", "p", "e", "g">>, <<"m", ".", "p", "n", "g">>,
           <<"m", ".", "p", "d", "f">>, <<"m", ".", "t">>, <<"m">>,
           <<"1", ".", "j", "p", "g">>}
        BildEntries ==
          {f \o t : f \in FileNames,
                    t \in {SEP \o <<"t">>, SEP \o <<"M", "a", "p">>, <<>>}}
        ZusatzEntries ==
          {f \o t : f \in FileNames,
                    t \in {SEP \o <<"t">>, SEP \o <<"s", "a", "m", "p", "l", "e">>}}
        DescPieces == {<<"a">>, <<" ">>, <<"\n">>, <<"\n", "\n">>}
        Descriptions ==
          {d \in {Flatten(ps) : ps \in StringsUpTo(DescPieces, MaxDescPieces)} :
             Strip(d) = d}
    IN  {With(CleanRecord, "Zitierempfehlung", c) : c \in Optional(Citations)}
        \cup {With(With(With(CleanRecord, "Jahr", y), "Datum Von", f), "Datum Bis", t) :
                y \in DateFieldValues, f \in DateFieldValues, t \in DateFieldValues}
        \cup {With(With(CleanRecord, "Bild 1", b), "Datensatz ID",
                    Some(<<"1", "4", "7">>)) :
                b \in Optional(BildEntries)}
        \cup {With(With(CleanRecord, field, e), "Datensatz ID", id) :
                field \in {"Zusatzdatei 1", "Bild 2"}, e \in Optional(ZusatzEntries),
                id \in Optional({<<"1", "4", "7">>, <<"9", "9", "9">>})}
        \cup {With(With(CleanRecord, "Beschreibung", d), "Anmerkungen", n) :
                d \in Optional(Descriptions), n \in Optional({<<"n">>})}

\* One call of create_tei_document: the document is returned and the warnings
\* of its file entries are appended to conversion_warnings
CreateTeiDocument ==
    /\ pc = "idle"
    /\ Len(conversion_warnings) < MaxWarnings
    /\ \E in \in {<<dataset, FullTemplate>> : dataset \in SynthDatasets}
                \cup {<<CleanRecord, template_data>> : template_data \in Templates} :
         LET dataset == in[1]
             template_data == in[2]
             dataset_id == GetOr(dataset, "Datensatz ID", <<"0", "0", "0">>)
         IN  /\ args' = [dataset |-> dataset, template_data |-> template_data]
             /\ ret' = create_tei_document(dataset, template_data)
             /\ conversion_warnings' =
                  conversion_warnings
                  \o EntryWarnings(FileFields, dataset, dataset_id)
             /\ pre_warnings' = conversion_warnings
    /\ pc' = "create_tei_document"
    /\ UNCHANGED <<audit, run>>

\* main() writes the document and goes on
SynthReturn ==
    /\ pc = "create_tei_document"
    /\ pc' = "idle"
    /\ args' = NoArgs
    /\ ret' = NoRet
    /\ pre_warnings' = conversion_warnings
    /\ UNCHANGED <<conversion_warnings, audit, run>>

SynthNext == CreateTeiDocument \/ SynthReturn

SpecSynth == EntryInit /\ [][SynthNext]_vars

-----------------------------------------------------------------------------
(* The converter's main loop                                              *)
(* (src/convert_csv_to_tei.py, main, prettify_xml)                        *)

\* minidom.parseString(ET.tostring(elem)) raises ExpatError when a text or an
\* attribute value of the tree holds a character XML 1.0 does not allow; of
\* these the form feed is the one the records drawn use.
RECURSIVE RaisesOnParse(_)
RaisesOnParse(elements) ==
    LET NotXml(text) == \E i \in 1..Len(text) : text[i] = "\f"
    IN  \E i \in 1..Len(elements) :
          \/ elements[i].text.some /\ NotXml(elements[i].text.val)
          \/ \E k \in DOMAIN elements[i].attrib : NotXml(elements[i].attrib[k])
          \/ RaisesOnParse(elements[i].children)

\* prettify_xml(tei_root): the rendered document, or None when it raises
prettify_xml(tei_root) ==
    IF \E part \in DOMAIN tei_root : RaisesOnParse(tei_root[part])
    THEN None ELSE Some(tei_root)

\* a faulty variant of the loop body's document: the tree also tells whether
\* warnings were collected before
DocumentOfRun(dataset, template_data) ==
    [create_tei_document(dataset, template_data) EXCEPT
       !.body = @ \o (IF conversion_warnings # <<>>
                        THEN <<create_tei_element("note", Lit("warnings"), EmptyDict)>>
                        ELSE <<>>)]
\* tei_root = create_tei_document(dataset, template_data) in the loop of main()
LoopDocument(dataset, template_data) == create_tei_document(dataset, template_data)

\* a faulty variant of the collector: a warning already collected is not kept
CollectedOnce(warnings, new) ==
    warnings \o SelectSeq(new, LAMBDA w : \A i \in 1..Len(warnings) : warnings[i] # w)
\* conversion_warnings.append(warning) for every warning of one document
Collected(warnings, new) == warnings \o new

\* the records of the CSV file the converter reads: the clean one, two whose
\* file entries have no title, and two with a form feed inside a value
ConvertRecords ==
    {CleanRecord,
     With(CleanRecord, "Bild 1", Some(<<"m", ".", "j", "p", "g">>)),
     With(CleanRecord, "Zusatzdatei 2", Some(<<"z">>)),
     With(CleanRecord, "Beschreibung", Some(<<"a", "\f", "b">>)),
     With(With(CleanRecord, "Bild 1", Some(<<"m", ".", "j", "p", "g">>)),
          "Anmerkungen", Some(<<"b", "\f", "b">>))}

\* main() up to the loop: the warnings are reset, the template and the CSV
\* file are read
ConvertStart ==
    /\ pc = "idle"
    /\ \E n \in 0..MaxRecords :
         \E datasets \in [1..n -> ConvertRecords],
            template_data \in {FullTemplate, EmptyDict} :
           run' = [datasets |-> datasets, template_data |-> template_data,
                   done |-> 0, written |-> <<>>, printed |-> None]
    /\ conversion_warnings' = <<>>
    /\ pre_warnings' = conversion_warnings
    /\ pc' = "main"
    /\ UNCHANGED <<args, ret, audit>>

\* main() without a CSV file named: the warnings are reset, then sys.exit(1)
ConvertUsage ==
    /\ pc = "idle"
    /\ conversion_warnings' = <<>>
    /\ pre_warnings' = conversion_warnings
    /\ pc' = "main_exit"
    /\ ret' = [exit_code |-> 1]
    /\ UNCHANGED <<args, audit, run>>

\* one pass of the loop of main(): the document of the next dataset is built,
\* rendered and written; an exception of prettify_xml leaves main()
ConvertDataset ==
    /\ pc = "main"
    /\ run.done < Len(run.datasets)
    /\ LET dataset == run.datasets[run.done + 1]
           dataset_id == GetOr(dataset, "Datensatz ID", <<"0", "0", "0">>)
           tei_root == LoopDocument(dataset, run.template_data)
       IN  /\ conversion_warnings' =
                Collected(conversion_warnings,
                          EntryWarnings(FileFields, dataset, dataset_id))
           /\ IF prettify_xml(tei_root).some
              THEN /\ run' = [run EXCEPT
                                !.done = @ + 1,
                                !.written = Append(@, prettify_xml(tei_root).val)]
                   /\ UNCHANGED <<pc, ret>>
              ELSE /\ pc' = "main_raised"
                   /\ ret' = [exit_code |-> 1]
                   /\ UNCHANGED run
    /\ pre_warnings' = conversion_warnings
    /\ UNCHANGED <<args, audit>>

\* main() after the loop: the warnings are printed
ConvertFinish ==
    /\ pc = "main"
    /\ run.done = Len(run.datasets)
    /\ run' = [run EXCEPT !.printed = Some(conversion_warnings)]
    /\ pc' = "main_done"
    /\ ret' = [exit_code |-> 0]
    /\ pre_warnings' = conversion_warnings
    /\ UNCHANGED <<args, conversion_warnings, audit>>

\* main() is left; the module and its warning list stay loaded
ConvertReturn ==
    /\ pc \in {"main_done", "main_raised", "main_exit"}
    /\ pc' = "idle"
    /\ ret' = NoRet
    /\ run' = NoRun
    /\ pre_warnings' = conversion_warnings
    /\ UNCHANGED <<args, conversion_warnings, audit>>

ConvertNext ==
    ConvertStart \/ ConvertUsage \/ ConvertDataset \/ ConvertFinish \/ ConvertReturn

SpecConvert == EntryInit /\ [][ConvertNext]_vars

-----------------------------------------------------------------------------
(***************************************************************************)
(* The image compressor (src/compress_images.py, compress_image)           *)
(*                                                                         *)
(* The file system is the record of the contents at image_path and at      *)
(* backup_path (None: no file).  A content is the record of the picture it *)
(* shows ('of'), the quality it was saved with (0: not saved by the        *)
(* compressor), whether it was resized, and its size.  What the picture    *)
(* library and the operating system decide is the record env: the size of  *)
(* the file saved at each quality, at full size and resized, the step that *)
(* raises, the outcome of the first rename, and whether rename replaces an *)
(* existing file (POSIX) or raises FileExistsError (Windows).  The         *)
(* temporary file is written and removed or moved within the call and is   *)
(* not part of the record.                                                 *)
(***************************************************************************)

\* the quality at which a loop of saves stops: the first one from quality
\* down in steps of 5 whose file is within the limit, None if there is none
RECURSIVE FirstFit(_, _, _, _)
FirstFit(quality, quality_min, sizes, max_size_bytes) ==
    IF quality < quality_min THEN None
    ELSE IF sizes[quality] <= max_size_bytes THEN Some(quality)
    ELSE FirstFit(quality - 5, quality_min, sizes, max_size_bytes)

compress_image(fs, max_size_bytes, quality_start, quality_min, env) ==
    LET original_size == fs.image.val.size
        Result(success, new_size, quality, f) ==
            [success |-> success, original_size |-> original_size,
             new_size |-> new_size, quality_used |-> quality, fs |-> f]
        \* backup_path.rename(image_path)
        Restored(f) == [f EXCEPT !.image = f.backup, !.backup = None]
        \* the except block
        Failed(f) ==
            Result(FALSE, original_size, None,
                   IF f.backup.some /\ ~f.image.some THEN Restored(f) ELSE f)
        \* the file system after the backup step
        backed_up ==
            IF fs.backup.some THEN fs
            ELSE IF env.rename = "ok"
            THEN [fs EXCEPT !.image = None, !.backup = fs.image]
            ELSE [fs EXCEPT !.backup = fs.image]
        Saved(sizes, quality, resized) ==
            Some([of |-> fs.image.val.of, quality |-> quality,
                  resized |-> resized, size |-> sizes[quality]])
        first == FirstFit(quality_start, quality_min, env.sizes, max_size_bytes)
        second == FirstFit(quality_start, quality_min, env.resized_sizes,
                           max_size_bytes)
    IN  IF original_size <= max_size_bytes
        THEN Result(TRUE, original_size, None, fs)
        ELSE IF env.raises = "open" THEN Failed(fs)
        ELSE IF ~fs.backup.some /\ env.rename = "OSError" THEN Failed(fs)
        ELSE IF env.raises = "save" THEN Failed(backed_up)
        ELSE IF first.some
        THEN Result(TRUE, env.sizes[first.val], first,
                    [backed_up EXCEPT
                        !.image = Saved(env.sizes, first.val, FALSE)])
        ELSE IF env.raises \in {"resize", "save_resized"} THEN Failed(backed_up)
        ELSE IF second.some
        THEN Result(TRUE, env.resized_sizes[second.val], second,
                    [backed_up EXCEPT
                        !.image = Saved(env.resized_sizes, second.val, TRUE)])
        ELSE IF ~backed_up.backup.some
        THEN Result(FALSE, original_size, None, backed_up)
        ELSE IF backed_up.image.some /\ ~env.posix THEN Failed(backed_up)
        ELSE Result(FALSE, original_size, None, Restored(backed_up))

\* One call of compress_image on an image with or without a '.backup' file
\* next to it; the backup holds the same picture or an older one
CompressImage ==
    /\ pc = "idle"
    /\ \E original_size \in {2, 3},
          backup \in {"none", "orig", "old"},
          quality_start \in {60, 65},
          sizes \in [{60, 65} -> {2, 3}],
          resized_sizes \in [{60, 65} -> {2, 3}],
          raises \in {"none", "open", "save", "resize", "save_resized"},
          rename \in {"ok", "PermissionError", "OSError"},
          posix \in BOOLEAN :
         LET File(of, size) == Some([of |-> of, quality |-> 0,
                                     resized |-> FALSE, size |-> size])
             fs == [image |-> File("orig", original_size),
                    backup |-> IF backup = "none" THEN None
                               ELSE File(backup, 3)]
             env == [sizes |-> sizes, resized_sizes |-> resized_sizes,
                     raises |-> raises, rename |-> rename, posix |-> posix]
         IN  /\ args' = [fs |-> fs, max_size_bytes |-> 2,
                         quality_start |-> quality_start, quality_min |-> 60,
                         env |-> env]
             /\ ret' = compress_image(fs, 2, quality_start, 60, env)
    /\ pc' = "compress_image"
    /\ UNCHANGED <<conversion_warnings, pre_warnings, audit, run>>

\* process_folder takes the result and goes on to the next image
CompressReturn ==
    /\ pc = "compress_image"
    /\ pc' = "idle"
    /\ args' = NoArgs
    /\ ret' = NoRet
    /\ UNCHANGED <<conversion_warnings, pre_warnings, audit, run>>

CompressNext == CompressImage \/ CompressReturn

SpecCompress == EntryInit /\ [][CompressNext]_vars

-----------------------------------------------------------------------------
(***************************************************************************)
(* Text with markup in an element                                          *)
(* (src/convert_csv_to_tei.py, add_mixed_content)                          *)
(*                                                                         *)
(* A 'hi' child carries, next to the fields of an element, its tail: the   *)
(* text between its end and the next child (None if there is none).        *)
(***************************************************************************)

\* the loop over the parts, from part i on (i = 1 is the code's i == 0)
RECURSIVE MixedParts(_, _, _)
MixedParts(parent, parts, i) ==
    IF i > Len(parts) THEN parent
    ELSE
      LET content == parts[i].content
          last == Len(parent.children)
      IN  IF parts[i].type = "text"
          THEN IF i = 1
               THEN MixedParts([parent EXCEPT !.text = Some(content)], parts, i + 1)
               ELSE IF last > 0
               THEN MixedParts(
                      [parent EXCEPT !.children[last].tail =
                          IF @.some /\ @.val # <<>>
                          THEN Some(@.val \o content) ELSE Some(content)],
                      parts, i + 1)
               ELSE MixedParts(parent, parts, i + 1)
          ELSE MixedParts(
                 WithChildren(parent,
                   <<[tail |-> None]
                     @@ create_tei_element("hi", content,
                                           ("rend" :> Lit("italic")))>>),
                 parts, i + 1)

\* a faulty variant of add_mixed_content: the plain text is left out
AddMixedItalicOnly(parent, text) ==
    IF text = <<>> THEN parent
    ELSE LET IsItalic(p) == p.type = "italic"
         IN  MixedParts(parent, SelectSeq(markdown_to_tei(text).val, IsItalic), 1)
\* add_mixed_content: the parent after the call
add_mixed_content(parent, text) ==
    IF text = <<>> THEN parent
    ELSE LET parts == markdown_to_tei(text)
         IN  IF ~parts.some \/ parts.val = <<>>
             THEN [parent EXCEPT !.text = Some(text)]
             ELSE MixedParts(parent, parts.val, 1)

\* create_tei_document makes the 'rs' element of the citation and fills it
AddMixedContent ==
    /\ pc = "idle"
    /\ \E text \in Texts :
         LET rs_citation ==
               create_tei_element("rs", <<>>,
                                  ("type" :> Lit("citation_recommendation")))
         IN  /\ args' = [parent |-> rs_citation, text |-> text]
             /\ ret' = add_mixed_content(rs_citation, text)
    /\ pc' = "add_mixed_content"
    /\ UNCHANGED <<conversion_warnings, pre_warnings, audit, run>>

\* create_tei_document appends the element to the citation
MixedReturn ==
    /\ pc = "add_mixed_content"
    /\ pc' = "idle"
    /\ args' = NoArgs
    /\ ret' = NoRet
    /\ UNCHANGED <<conversion_warnings, pre_warnings, audit, run>>

MixedNext == AddMixedContent \/ MixedReturn

SpecMixed == EntryInit /\ [][MixedNext]_vars

-----------------------------------------------------------------------------
(* Claims about parse_file_entry *)

Called(f) == pc = f
NonePair == [filename |-> None, title |-> None]
\* the text before / after the first ' - ' of an entry that has one
LeftOf(entry) == Split1(entry, SEP)[1]
RightOf(entry) == Split1(entry, SEP)[2]

\* C1: an entry that contains ' - ' with nothing before the first ' - '
\* gives (None, None) and appends exactly one FEHLER 'empty filename' warning.
C1_EmptyFilenameIsError ==
    (/\ Called("parse_file_entry")
     /\ Contains(args.entry, SEP)
     /\ Strip(LeftOf(args.entry)) = <<>>)
    => /\ ret = NonePair
       /\ conversion_warnings =
            pre_warnings \o <<EmptyFilename(args.field_name, args.dataset_id)>>

\* C2: an entry that contains ' - ' with a non-empty left side and an empty
\* right side gives (trimmed left side, None) and appends exactly one WARNUNG
\* 'empty title' warning.
C2_EmptyTitleIsWarning ==
    (/\ Called("parse_file_entry")
     /\ Contains(args.entry, SEP)
     /\ Strip(LeftOf(args.entry)) # <<>>
     /\ Strip(RightOf(args.entry)) = <<>>)
    => /\ ret = [filename |-> Some(Strip(LeftOf(args.entry))), title |-> None]
       /\ conversion_warnings =
            pre_warnings \o <<EmptyTitle(args.field_name, args.dataset_id)>>

\* C3 as stated: every entry without ' - ' gives (trimmed entry, None) and
\* appends exactly one WARNUNG 'missing title' warning.
C3_NoSeparatorAnyString ==
    (Called("parse_file_entry") /\ ~Contains(args.entry, SEP))
    => /\ ret = [filename |-> Some(Strip(args.entry)), title |-> None]
       /\ conversion_warnings =
            pre_warnings \o <<MissingTitle(args.field_name, args.dataset_id)>>

\* C3 amended: every entry without ' - ' that is not empty or whitespace-only
\* gives (trimmed entry, None) and appends exactly one WARNUNG 'missing title'
\* warning.
C3_NoSeparatorNonBlank ==
    (/\ Called("parse_file_entry")
     /\ ~Contains(args.entry, SEP)
     /\ Strip(args.entry) # <<>>)
    => /\ ret = [filename |-> Some(Strip(args.entry)), title |-> None]
       /\ conversion_warnings =
            pre_warnings \o <<MissingTitle(args.field_name, args.dataset_id)>>

\* C3, reached: an entry with surrounding whitespace and no separator, parsed when the
\* list already held a warning
C3_Witness ==
    /\ Called("parse_file_entry")
    /\ ~Contains(args.entry, SEP)
    /\ Strip(args.entry) # <<>>
    /\ Strip(args.entry) # args.entry
    /\ pre_warnings # <<>>
    /\ Len(conversion_warnings) = Len(pre_warnings) + 1

\* C4: an empty or whitespace-only entry gives (None, None) and leaves
\* conversion_warnings unchanged.
C4_BlankEntry ==
    (Called("parse_file_entry") /\ Strip(args.entry) = <<>>)
    => /\ ret = NonePair
       /\ conversion_warnings = pre_warnings

\* C4, reached: a whitespace-only entry parsed when the list already held a warning
C4_Witness ==
    /\ Called("parse_file_entry")
    /\ args.entry # <<>>
    /\ Strip(args.entry) = <<>>
    /\ pre_warnings # <<>>

\* A well-formed entry: after trimming it is filename ' - ' title, the
\* filename being the text before the first ' - ', and neither the filename
\* nor the title empty or bordered by whitespace.
WellFormedEntry(entry) ==
    LET e == Strip(entry)
    IN  /\ Contains(e, SEP)
        /\ LeftOf(e) # <<>> /\ Strip(LeftOf(e)) = LeftOf(e)
        /\ RightOf(e) # <<>> /\ Strip(RightOf(e)) = RightOf(e)

\* C5: a well-formed entry is split at its first ' - ' only, filename + ' - '
\* + title is the trimmed entry again, and no warning is appended.
C5_RoundTrip ==
    (Called("parse_file_entry") /\ WellFormedEntry(args.entry))
    => /\ ret.filename.some /\ ret.title.some
       /\ ret.filename.val \o SEP \o ret.title.val = Strip(args.entry)
       /\ Find(Strip(args.entry), SEP) = Len(ret.filename.val) + 1
       /\ conversion_warnings = pre_warnings

\* C5, reached: a well-formed entry whose title itself contains ' - '
C5_Witness ==
    /\ Called("parse_file_entry")
    /\ WellFormedEntry(args.entry)
    /\ ret.title.some
    /\ Contains(ret.title.val, SEP)
    /\ Strip(args.entry) # args.entry

-----------------------------------------------------------------------------
(* Claims about markdown_to_tei *)

\* the segments of a result: a None result holds none
SegmentsOf(r) == IF r.some THEN r.val ELSE <<>>

\* the segment contents, concatenated in order
RECURSIVE ConcatContents(_)
ConcatContents(parts) ==
    IF parts = <<>> THEN <<>>
    ELSE Head(parts).content \o ConcatContents(Tail(parts))

\* the segments written back as markup: an italic segment between two '*'
RECURSIVE Render(_)
Render(parts) ==
    IF parts = <<>> THEN <<>>
    ELSE (IF Head(parts).type = "italic"
            THEN <<STAR>> \o Head(parts).content \o <<STAR>>
            ELSE Head(parts).content)
         \o Render(Tail(parts))

\* The matched spans of a text, stated without scanning: a candidate is a '*'
\* with the next '*' at least two places on; the matched spans are the
\* candidates that share no delimiter, every other candidate opening on the
\* closing delimiter of a matched one.
Candidates(text) ==
    {c \in (1..Len(text)) \X (1..Len(text)) :
        /\ c[2] >= c[1] + 2
        /\ text[c[1]] = STAR /\ text[c[2]] = STAR
        /\ \A k \in (c[1] + 1)..(c[2] - 1) : text[k] # STAR}
MatchedSpans(text) ==
    CHOOSE S \in SUBSET Candidates(text) :
        /\ \A c, d \in S : c # d => {c[1], c[2]} \cap {d[1], d[2]} = {}
        /\ \A c \in Candidates(text) \ S : \E d \in S : d[2] = c[1]

\* the text without the characters at the positions in D
RECURSIVE DropAt(_, _, _)
DropAt(text, D, i) ==
    IF i > Len(text) THEN <<>>
    ELSE (IF i \in D THEN <<>> ELSE <<text[i]>>) \o DropAt(text, D, i + 1)
WithoutDelimiters(text) ==
    DropAt(text, UNION {{c[1], c[2]} : c \in MatchedSpans(text)}, 1)

\* the spans the italic segments stand for, each segment placed where the
\* segments before it end (off = characters of the text already covered)
RECURSIVE SpansOf(_, _)
SpansOf(parts, off) ==
    IF parts = <<>> THEN {}
    ELSE IF Head(parts).type = "italic"
    THEN {<<off + 1, off + Len(Head(parts).content) + 2>>}
         \cup SpansOf(Tail(parts), off + Len(Head(parts).content) + 2)
    ELSE SpansOf(Tail(parts), off + Len(Head(parts).content))

\* C6: the segments are in the order of the text and hold all of it exactly
\* once: their contents concatenated are the text without the delimiters of
\* its matched *...* spans, the italic segments are exactly the matched spans
\* and everything else (an unmatched '*' included) is in 'text' segments.
C6_SegmentsPreserveText ==
    Called("markdown_to_tei") =>
      LET parts == SegmentsOf(ret)
      IN  /\ \A i \in 1..Len(parts) :
               parts[i].type \in {"text", "italic"} /\ parts[i].content # <<>>
          /\ Render(parts) = args.text
          /\ SpansOf(parts, 0) = MatchedSpans(args.text)
          /\ ConcatContents(parts) = WithoutDelimiters(args.text)

\* C6, reached: a text with plain text, a matched span and an unmatched '*' after it
C6_Witness ==
    /\ Called("markdown_to_tei")
    /\ ret.some
    /\ Len(ret.val) = 3
    /\ ret.val[1].type = "text"
    /\ ret.val[2].type = "italic"
    /\ ret.val[3].type = "text"
    /\ ret.val[3].content[1] = STAR

NoStar(text) == \A i \in 1..Len(text) : text[i] # STAR

\* C7 as stated: an empty text gives a sequence of length 0, and a text
\* without '*' gives exactly one plain segment holding the whole text.
C7_EmptyIsEmptySequence ==
    Called("markdown_to_tei") =>
      /\ args.text = <<>> => ret = Some(<<>>)
      /\ (args.text # <<>> /\ NoStar(args.text))
           => ret = Some(<<TextPart(args.text)>>)

\* C7 amended: an empty text gives None, no sequence at all, and a non-empty
\* text without '*' gives exactly one plain segment holding the whole text.
C7_EmptyIsNone ==
    Called("markdown_to_tei") =>
      /\ args.text = <<>> => ret = None
      /\ (args.text # <<>> /\ NoStar(args.text))
           => ret = Some(<<TextPart(args.text)>>)

\* C7, reached: the call on the empty text has returned
C7_Witness ==
    /\ Called("markdown_to_tei")
    /\ args.text = <<>>
    /\ ~ret.some

-----------------------------------------------------------------------------
(* Claims about parse_csv_column *)

\* the positions (1-based, among the dataset header cells) of the non-empty
\* header cells, in header order
RECURSIVE NonEmptyHeaders(_, _)
NonEmptyHeaders(headers, i) ==
    IF i > Len(headers) THEN <<>>
    ELSE (IF Strip(headers[i]) # <<>> THEN <<i>> ELSE <<>>)
         \o NonEmptyHeaders(headers, i + 1)

\* C8: one record per non-empty header cell, in header order, the i-th record
\* holding the values of the column under the i-th non-empty header; a column
\* with an empty header cell gives no record and no value of any record.
C8_OneRecordPerNonEmptyHeader ==
    Called("parse_csv_column") =>
      LET cols == NonEmptyHeaders(SliceFrom(args.rows[2], 2), 1)
      IN  /\ Len(ret) = Len(cols)
          /\ \A i \in 1..Len(cols) :
               ret[i] = RecordOfColumn(SliceFrom(args.rows, 4), (cols[i] - 1) + 2,
                                       EmptyDict)

-----------------------------------------------------------------------------
(* Claims about the consistency rules *)

\* s without its last n characters
DropLast(s, n) == SubSeq(s, 1, Len(s) - n)

\* C9: with both entries non-empty the rule is ok iff the codes filename ends
\* with '_codes.csv', the labels filename ends with '_labels.csv' and the two
\* filenames without that suffix are equal; with both suffixes right and only
\* the base names different it gives exactly one issue naming both base names.
C9_LabelsMatchCodes ==
    (/\ Called("validate_csv_labels_match_codes")
     /\ args.codes_entry # <<>> /\ args.labels_entry # <<>>)
    => LET codes_file == FilenameOf(args.codes_entry)
           labels_file == FilenameOf(args.labels_entry)
           suffixes == /\ EndsWith(codes_file, CODES_SUFFIX)
                       /\ EndsWith(labels_file, LABELS_SUFFIX)
           codes_base == DropLast(codes_file, Len(CODES_SUFFIX))
           labels_base == DropLast(labels_file, Len(LABELS_SUFFIX))
       IN  /\ ret.ok <=> (suffixes /\ codes_base = labels_base)
           /\ (suffixes /\ codes_base # labels_base)
                => ret.issues = <<BaseMismatchIssue(codes_base, labels_base)>>

Present(v) == v # <<>>
Numeric(v) == ParseInt(v).ok

\* C10: one issue when exactly one of 'Datum Von' / 'Datum Bis' is present, one
\* issue when both are present and a numeric 'Jahr' is outside the inclusive
\* range [from, to] of numeric bounds, and ok with no issue otherwise.
C10_DateRange ==
    Called("validate_date_range") =>
      LET oneMissing == Present(args.date_from) # Present(args.date_to)
          outside ==
            /\ Present(args.date_from) /\ Present(args.date_to) /\ Present(args.year)
            /\ Numeric(args.year) /\ Numeric(args.date_from) /\ Numeric(args.date_to)
            /\ \/ ParseInt(args.year).val < ParseInt(args.date_from).val
               \/ ParseInt(args.year).val > ParseInt(args.date_to).val
      IN  /\ oneMissing => (~ret.ok /\ Len(ret.issues) = 1)
          /\ outside => (~ret.ok /\ ret.issues =
                           <<OutOfRangeIssue(args.year, args.date_from, args.date_to)>>)
          /\ (~oneMissing /\ ~outside) => (ret.ok /\ ret.issues = <<>>)

\* C10, reached: a numeric year on the upper end of a numeric range of more than one year:
\* inside, so no issue
C10_Witness ==
    /\ Called("validate_date_range")
    /\ Numeric(args.year) /\ Numeric(args.date_from) /\ Numeric(args.date_to)
    /\ ParseInt(args.date_from).val < ParseInt(args.date_to).val
    /\ ParseInt(args.year).val = ParseInt(args.date_to).val
    /\ ret.ok

-----------------------------------------------------------------------------
(* Claims about the PID rule *)

\* pid is 'o:histdem.' followed by one or more decimal digits and nothing else
RightShape(pid) ==
    \E n \in 1..Len(pid) :
      /\ Len(pid) = Len(PID_PREFIX) + n
      /\ \A i \in 1..Len(pid) :
           IF i <= Len(PID_PREFIX) THEN pid[i] = PID_PREFIX[i] ELSE pid[i] \in Digits
ExpectedPid(dataset_id) == PID_PREFIX \o dataset_id

\* C11: the PID rule passes a record iff its PID has the shape
\* 'o:histdem.<digits>' and equals 'o:histdem.<Datensatz ID>'; a PID of the
\* right shape naming another id gives exactly one issue citing the expected PID.
C11_PidRule ==
    Called("pid_rule") =>
      /\ ret.ok <=> (RightShape(args.pid) /\ args.pid = ExpectedPid(args.dataset_id))
      /\ (RightShape(args.pid) /\ args.pid # ExpectedPid(args.dataset_id))
           => /\ Len(ret.issues) = 1
              /\ ret.issues[1].kind = "pid_mismatch"
              /\ ret.issues[1].expected = ExpectedPid(args.dataset_id)

\* C11, amended: the same for a record whose PID and Datensatz ID are both
\* non-empty; a record with an empty PID passes the PID rule, and with an empty
\* Datensatz ID the shape alone decides.
C11_PidRuleNonEmpty ==
    Called("pid_rule") =>
      /\ (args.pid # <<>> /\ args.dataset_id # <<>>) =>
           /\ ret.ok <=> (/\ RightShape(args.pid)
                          /\ args.pid = ExpectedPid(args.dataset_id))
           /\ (RightShape(args.pid) /\ args.pid # ExpectedPid(args.dataset_id))
                => /\ Len(ret.issues) = 1
                   /\ ret.issues[1].kind = "pid_mismatch"
                   /\ ret.issues[1].expected = ExpectedPid(args.dataset_id)
      /\ args.pid = <<>> => ret.ok
      /\ (args.pid # <<>> /\ args.dataset_id = <<>>)
           => (ret.ok <=> RightShape(args.pid))

\* C11, reached: a PID of the right shape naming another id than the record's
C11_Witness ==
    /\ Called("pid_rule")
    /\ RightShape(args.pid) /\ args.dataset_id # <<>>
    /\ args.pid # ExpectedPid(args.dataset_id)
    /\ Len(ret.issues) = 1

-----------------------------------------------------------------------------
(* Claims about the file-existence rule *)

Mapped(dataset_id) == dataset_id \in DOMAIN DATASET_FOLDERS
\* the file is on the disk under the folder mapped to the id
FileUnderFolder(filename, dataset_id, disk) ==
    /\ Mapped(dataset_id)
    /\ <<DATASET_FOLDERS[dataset_id]>> \in disk
    /\ <<DATASET_FOLDERS[dataset_id], filename>> \in disk

\* the file-bearing fields of a record whose named file is not there
FailingFields(dataset, dataset_id, disk) ==
    {f \in {FileFields[i] : i \in 1..Len(FileFields)} :
       /\ FilenameOf(Get(dataset, f)) # <<>>
       /\ ~FileUnderFolder(FilenameOf(Get(dataset, f)), dataset_id, disk)}

\* C12: for a non-empty filename check_file_exists reports 'no folder mapping'
\* for an unmapped id, else 'folder does not exist' for a missing folder, else
\* 'file not found' for a missing file, three different messages, and success
\* only when the file exists under the mapped folder; validate_files_exist
\* gives one issue per file-bearing field whose check fails.
C12_FileExistence ==
    /\ (Called("check_file_exists") /\ args.filename # <<>>) =>
         LET folder == DATASET_FOLDERS[args.dataset_id]
         IN  /\ ~Mapped(args.dataset_id)
                  => ~ret.exists /\ ret.msg.kind = "no_mapping"
             /\ (Mapped(args.dataset_id) /\ <<folder>> \notin args.disk)
                  => ~ret.exists /\ ret.msg.kind = "no_folder"
             /\ (/\ Mapped(args.dataset_id) /\ <<folder>> \in args.disk
                 /\ <<folder, args.filename>> \notin args.disk)
                  => ~ret.exists /\ ret.msg.kind = "not_found"
             /\ ret.exists
                  <=> FileUnderFolder(args.filename, args.dataset_id, args.disk)
             /\ ~ret.exists
                  => ret.msg.kind \in {"no_mapping", "no_folder", "not_found"}
    /\ Called("validate_files_exist") =>
         LET failing == FailingFields(args.dataset, args.dataset_id, args.disk)
         IN  /\ Len(ret.issues) = Cardinality(failing)
             /\ \A f \in failing :
                  Cardinality({i \in 1..Len(ret.issues) : ret.issues[i].field = f}) = 1
             /\ ret.ok <=> failing = {}

\* C12, reached: a record with two file-bearing fields of which one names a
\* file that is in the mapped folder and the other one that is not
C12_Witness ==
    /\ Called("validate_files_exist")
    /\ Cardinality(DOMAIN args.dataset) = 2
    /\ Len(ret.issues) = 1
    /\ ret.issues[1].msg.kind = "not_found"

-----------------------------------------------------------------------------
(* Claims about the auditor's exit code *)

\* every rule main() applies to the dataset returns ok
Clean(dataset, disk) ==
    LET dataset_id == IF "Datensatz ID" \in DOMAIN dataset
                      THEN dataset["Datensatz ID"] ELSE UNKNOWN
    IN  /\ validate_required_fields(dataset).ok
        /\ validate_file_entry(Get(dataset, "CSV Codes"), "CSV Codes").ok
        /\ validate_file_entry(Get(dataset, "CSV Labels"), "CSV Labels").ok
        /\ (Get(dataset, "CSV Codes") # <<>> /\ Get(dataset, "CSV Labels") # <<>>)
             => validate_csv_labels_match_codes(Get(dataset, "CSV Codes"),
                                                Get(dataset, "CSV Labels")).ok
        /\ validate_date_range(Get(dataset, "Jahr"), Get(dataset, "Datum Von"),
                               Get(dataset, "Datum Bis")).ok
        /\ \A i \in 3..Len(FileFields) :
             Get(dataset, FileFields[i]) # <<>>
               => validate_file_entry(Get(dataset, FileFields[i]), FileFields[i]).ok
        /\ PidRule(Get(dataset, "PID"), dataset_id) = <<>>
        /\ LanguageIssues(Get(dataset, "Sprachcodes")) = <<>>
        /\ validate_files_exist(dataset, dataset_id, disk).ok

\* C13: when the auditor has processed its records its exit code is 0 if
\* every record is clean and 1 otherwise.
C13_ExitCode ==
    pc = "main_done" =>
      ret.exit_code =
        IF \A i \in 1..Len(audit.datasets) : Clean(audit.datasets[i], audit.disk)
        THEN 0 ELSE 1

\* C13, reached: a run over two records of which the first has issues and the
\* last has none
C13_Witness ==
    /\ pc = "main_done"
    /\ Len(audit.datasets) = 2
    /\ ~Clean(audit.datasets[1], audit.disk)
    /\ Clean(audit.datasets[2], audit.disk)
    /\ ret.exit_code = 1

-----------------------------------------------------------------------------
(* Claims about URLs and identifiers *)

\* C14: for a non-empty filename and a dataset id that is a key of
\* DATASET_FOLDERS add_folder_prefix returns '../<folder>/<filename>' (for id
\* '147': '../datafile_147_Serbia_1863/<filename>'), and for an id that is not
\* a key it returns the filename unchanged.
C14_FolderPrefix ==
    Called("add_folder_prefix") =>
      /\ (Mapped(args.dataset_id) /\ args.filename # <<>>)
           => ret = <<".", ".", "/">> \o <<DATASET_FOLDERS[args.dataset_id]>>
                    \o <<"/">> \o args.filename
      /\ (args.dataset_id = <<"1", "4", "7">> /\ args.filename # <<>>)
           => ret = <<".", ".", "/", "datafile_147_Serbia_1863", "/">>
                    \o args.filename
      /\ ~Mapped(args.dataset_id) => ret = args.filename

\* C14, reached: a filename prefixed with the folder of dataset 147
C14_Witness ==
    /\ Called("add_folder_prefix")
    /\ args.dataset_id = <<"1", "4", "7">>
    /\ args.filename = <<"a", ".", "j", "p", "g">>
    /\ ret # args.filename

KnownExtensions ==
    {<<".", "c", "s", "v">>, <<".", "p", "d", "f">>, <<".", "j", "p", "g">>,
     <<".", "J", "P", "G">>, <<".", "j", "p", "e", "g">>, <<".", "p", "n", "g">>}

\* the filename without the known extension it ends with, if any
WithoutKnownExtension(filename) ==
    IF \E ext \in KnownExtensions : EndsWith(filename, ext)
    THEN DropLast(filename,
                  Len(CHOOSE ext \in KnownExtensions : EndsWith(filename, ext)))
    ELSE filename

Underscored(s) == [i \in 1..Len(s) |-> IF s[i] \in {" ", ".", "-"} THEN "_" ELSE s[i]]

\* the identifier the claim describes
ExpectedId(filename) ==
    LET result == Underscored(WithoutKnownExtension(filename))
    IN  IF result = <<>> THEN <<"i", "d", "_", "u", "n", "k", "n", "o", "w", "n">>
        ELSE IF result[1] \in Digits THEN <<"_">> \o result
        ELSE result

\* C15: sanitize_xml_id(filename) is the filename with its known extension
\* stripped and every space, period and hyphen replaced by '_', prefixed with
\* '_' when that starts with a digit, and 'id_unknown' when that is empty; it
\* is never empty and never starts with a digit.
C15_SanitizedId ==
    Called("sanitize_xml_id") =>
      /\ ret = ExpectedId(args.filename)
      /\ ret # <<>>
      /\ ret[1] \notin Digits

-----------------------------------------------------------------------------
(* Claims about the document synthesizer *)

\* the elements of a sequence of elements that have the tag
WithTag(elements, tag) ==
    LET HasTag(e) == e.tag = tag
    IN  SelectSeq(elements, HasTag)

\* the names in the editor elements: the tokens of the forename, and the surname
EditorNames(doc) ==
    LET editors == WithTag(doc.title_stmt, "editor")
    IN  [i \in 1..Len(editors) |->
           [forename |-> Tokens(editors[i].children[1].children[1].text.val),
            surname |-> editors[i].children[1].children[2].text.val]]

NameOf(author) ==
    [forename |-> SubSeq(Tokens(author), 1, Len(Tokens(author)) - 1),
     surname |-> Tokens(author)[Len(Tokens(author))]]

TwoTokens(author) == Len(Tokens(author)) >= 2

FirstN(seq, n) == SubSeq(seq, 1, IF Len(seq) < n THEN Len(seq) ELSE n)

PlaceholderName == [forename |-> <<Lit("FIRST")>>, surname |-> Lit("LAST")]

\* C16: one editor per parsed author of the citation that has at least two
\* tokens (forename: all tokens but the last, surname: the last), at most 3
\* editors, single-token authors skipped, and exactly one placeholder editor
\* 'FIRST LAST' when the citation has no parsed author.
C16_Editors ==
    Called("create_tei_document") =>
      LET authors == parse_citation_authors(Get(args.dataset, "Zitierempfehlung"))
          named == FirstN(SelectSeq(authors, TwoTokens), 3)
      IN  EditorNames(ret) =
            IF authors = <<>> THEN <<PlaceholderName>>
            ELSE [i \in 1..Len(named) |-> NameOf(named[i])]

\* C16, amended: the cap is on the parsed authors: one editor per author with
\* at least two tokens among the first 3 parsed authors.
C16_EditorsOfFirstThree ==
    Called("create_tei_document") =>
      LET authors == parse_citation_authors(Get(args.dataset, "Zitierempfehlung"))
          named == SelectSeq(FirstN(authors, 3), TwoTokens)
      IN  EditorNames(ret) =
            IF authors = <<>> THEN <<PlaceholderName>>
            ELSE [i \in 1..Len(named) |-> NameOf(named[i])]

\* C16, reached: four parsed authors, the first with one token and the others
\* with two or more, give two editors
C16_Witness ==
    /\ Called("create_tei_document")
    /\ LET authors == parse_citation_authors(Get(args.dataset, "Zitierempfehlung"))
       IN  /\ Len(authors) = 4
           /\ ~TwoTokens(authors[1])
           /\ \A i \in 2..4 : TwoTokens(authors[i])
    /\ Len(EditorNames(ret)) = 2

\* the extension of a filename: the text after its last '.', in lower case
ExtensionOf(filename) ==
    LET dots == {i \in 1..Len(filename) : filename[i] = "."}
    IN  IF dots = {} THEN None
        ELSE Some(ToLower(SubSeq(filename, SetMax(dots) + 1, Len(filename))))

ImageExtension(filename) ==
    /\ ExtensionOf(filename).some
    /\ ExtensionOf(filename).val
         \in {<<"j", "p", "g">>, <<"j", "p", "e", "g">>, <<"p", "n", "g">>}

\* the tags the claim gives the file elements of the filled fields, in order
RECURSIVE ExpectedFileTags(_, _)
ExpectedFileTags(fields, dataset) ==
    IF fields = <<>> THEN <<>>
    ELSE (IF FilenameOf(Get(dataset, Head(fields))) # <<>>
            THEN <<IF ImageExtension(FilenameOf(Get(dataset, Head(fields))))
                   THEN "graphic" ELSE "media">>
            ELSE <<>>)
         \o ExpectedFileTags(Tail(fields), dataset)

\* the file elements of the Zusatzdatei and Bild entries of the document
FileElementsOf(doc) ==
    LET HasFile(rs) == Len(rs.children) = 2
        entries == SelectSeq(doc.additional_bibl, HasFile)
    IN  [i \in 1..Len(entries) |-> entries[i].children[2]]

\* C17: for every Bild and Zusatzdatei entry with a filename the MIME type
\* follows from the extension of the filename, the element is a 'graphic' iff
\* that type is an image type, and a file with a non-image or unknown
\* extension gets a 'media' element.
C17_MimeRouting ==
    Called("create_tei_document") =>
      LET files == FileElementsOf(ret)
      IN  /\ [i \in 1..Len(files) |-> files[i].tag]
               = ExpectedFileTags(ZusatzFields \o BildFields, args.dataset)
          /\ \A i \in 1..Len(files) :
               files[i].tag = "graphic"
                 <=> StartsWith(files[i].attrib["mimeType"], <<"image/">>)

\* the text of the first element with the tag
TextOf(elements, tag) == WithTag(elements, tag)[1].children[1].text

\* the value of the key if the template has it, else some non-empty literal
FromTemplate(text, template_data, key) ==
    /\ text.some
    /\ text.val # <<>>
    /\ key \in DOMAIN template_data => text.val = template_data[key]

\* C18: every boilerplate region (publisher, authorities, distributor,
\* license, funder, series titles, responsibility statements, project
\* description) carries the value of the template, and is still emitted, with
\* a fallback literal, when its key is absent from the template.
C18_Boilerplate ==
    Called("create_tei_document") =>
      LET t == args.template_data
      IN  /\ FromTemplate(TextOf(ret.pub_stmt, "publisher"), t, "publisher_name")
          /\ FromTemplate(TextOf(ret.pub_stmt, "authority"), t, "authority_name")
          /\ FromTemplate(TextOf(ret.pub_stmt, "distributor"), t, "distributor_name")
          /\ FromTemplate(TextOf(ret.pub_stmt, "availability"), t, "license_text")
          /\ FromTemplate(TextOf(ret.title_stmt, "funder"), t, "funder_name")
          /\ Len(WithTag(ret.series_stmt, "title")) >= 1
          /\ "series_titles" \in DOMAIN t =>
               Len(WithTag(ret.series_stmt, "title")) = Len(t["series_titles"])
          /\ Len(WithTag(ret.series_stmt, "respStmt")) = 2
          /\ Len(WithTag(ret.project_desc, "p")) >= 1
          /\ "project_desc_paragraphs" \in DOMAIN t =>
               Len(WithTag(ret.project_desc, "p")) = Len(t["project_desc_paragraphs"])

Filled(dataset, field) == Get(dataset, field) # <<>>

\* C19: the date element of the source description has 'from' and 'to' when
\* 'Datum Von' and 'Datum Bis' are both present, else 'when' with the value of
\* 'Jahr' when that is present, else 'when' with the literal 'YEAR'; there is
\* exactly one such element.
C19_SourceDate ==
    Called("create_tei_document") =>
      LET dates == WithTag(ret.source_bibl, "date")
          attrib == dates[1].attrib
          d == args.dataset
      IN  /\ Len(dates) = 1
          /\ IF Filled(d, "Datum Von") /\ Filled(d, "Datum Bis")
             THEN /\ "from" \in DOMAIN attrib /\ attrib["from"] = d["Datum Von"]
                  /\ "to" \in DOMAIN attrib /\ attrib["to"] = d["Datum Bis"]
                  /\ "when" \notin DOMAIN attrib
             ELSE /\ "when" \in DOMAIN attrib
                  /\ attrib["when"] = IF Filled(d, "Jahr") THEN d["Jahr"]
                                      ELSE Lit("YEAR")
                  /\ "from" \notin DOMAIN attrib
                  /\ "to" \notin DOMAIN attrib

\* C19, reached: a record with both bounds and a year, and one with a year only
C19_Witness ==
    /\ Called("create_tei_document")
    /\ Filled(args.dataset, "Datum Von") /\ Filled(args.dataset, "Datum Bis")
    /\ Filled(args.dataset, "Jahr")
    /\ "from" \in DOMAIN ret.source_bibl[1].attrib

BLANK_LINE == <<"\n", "\n">>

\* s without its whitespace
Unspaced(s) ==
    LET NotSpace(c) == ~IsSpace(c)
    IN  SelectSeq(s, NotSpace)

RECURSIVE ConcatTexts(_)
ConcatTexts(elements) ==
    IF elements = <<>> THEN <<>>
    ELSE Head(elements).text.val \o ConcatTexts(Tail(elements))

\* C20: the body has at least one paragraph (the pieces of the description
\* between blank lines when it has blank lines, else the description as one
\* paragraph, else the placeholder 'Description pending.' when it is empty)
\* and exactly one note (the note text, or 'No additional notes.').
C20_Body ==
    Called("create_tei_document") =>
      LET description == Get(args.dataset, "Beschreibung")
          notes == Get(args.dataset, "Anmerkungen")
          ps == WithTag(ret.body, "p")
          note == WithTag(ret.body, "note")
      IN  /\ Len(ps) >= 1
          /\ \A i \in 1..Len(ps) : ps[i].text.some /\ ps[i].text.val # <<>>
          /\ description = <<>>
               => ps = <<create_tei_element("p", Lit("Description pending."), EmptyDict)>>
          /\ (description # <<>> /\ ~Contains(description, BLANK_LINE))
               => (Len(ps) = 1 /\ ps[1].text.val = description)
          /\ (description # <<>> /\ Contains(description, BLANK_LINE))
               => /\ Unspaced(ConcatTexts(ps)) = Unspaced(description)
                  /\ \A i \in 1..Len(ps) : Contains(description, ps[i].text.val)
                  /\ \A i \in 1..Len(ps) : ~Contains(ps[i].text.val, BLANK_LINE)
          /\ Len(note) = 1
          /\ note[1].text.val = IF notes # <<>> THEN notes
                                ELSE Lit("No additional notes.")

\* C20, reached: a description with a blank line in it gives two paragraphs
C20_Witness ==
    /\ Called("create_tei_document")
    /\ Contains(Get(args.dataset, "Beschreibung"), BLANK_LINE)
    /\ Len(WithTag(ret.body, "p")) = 2
    /\ Len(WithTag(ret.body, "note")) = 1

-----------------------------------------------------------------------------
(* Claims about the converter's main loop *)

\* the run of main() has reached its loop
InLoop == pc \in {"main", "main_done", "main_raised"}

C22_LoopGoesOn ==
    pc \in {"main_done", "main_raised"} => run.done = Len(run.datasets)

\* the number of warnings the file entries of a record give
RECURSIVE WarningCount(_, _)
WarningCount(fields, dataset) ==
    IF fields = <<>> THEN 0
    ELSE (IF Get(dataset, Head(fields)) # <<>>
            THEN Len(parse_file_entry(Get(dataset, Head(fields)), Head(fields),
                       GetOr(dataset, "Datensatz ID", <<"0", "0", "0">>)).warn)
            ELSE 0)
         + WarningCount(Tail(fields), dataset)

IsPrefixOf(s, t) == Len(s) <= Len(t) /\ SubSeq(t, 1, Len(s)) = s

\* C23: conversion_warnings is emptied only at the start of main(); every
\* other step leaves it a prefix of its next value; a pass of the loop adds
\* every warning of its dataset, equal to an earlier one or not; and the
\* warnings are read out once, after the last dataset.
C23_AppendOnly ==
    [][/\ \/ IsPrefixOf(conversion_warnings, conversion_warnings')
          \/ pc = "idle" /\ pc' \in {"main", "main_exit"}
             /\ conversion_warnings' = <<>>
       /\ (pc = "main" /\ run.done < Len(run.datasets)) =>
            Len(conversion_warnings') =
              Len(conversion_warnings)
              + WarningCount(FileFields, run.datasets[run.done + 1])
       /\ (pc = "main" /\ pc' = "main_done") =>
            /\ ~run.printed.some
            /\ run'.printed = Some(conversion_warnings')
            /\ run'.done = Len(run'.datasets)
       /\ pc' \in {"main", "main_raised"} => ~run'.printed.some]_vars

\* C23, reached: two records with the same defect have left two equal
\* warnings, which are read out in that order
C23_Witness ==
    /\ pc = "main_done"
    /\ Len(conversion_warnings) = 2
    /\ conversion_warnings[1] = conversion_warnings[2]
    /\ run.printed = Some(conversion_warnings)

-----------------------------------------------------------------------------
(* Claims about the two readers of a file entry *)

\* the kinds of finding the two readers share
EntryKinds == {"missing_title", "empty_filename", "empty_title"}
KindOfWarning(w) ==
    IF w.msg = "Fehlender Titel" THEN "missing_title"
    ELSE IF w.msg = "Leerer Dateiname" THEN "empty_filename"
    ELSE IF w.msg = "Leerer Titel" THEN "empty_title" ELSE "other"

\* the warnings of the parser and the issues of the auditor name the same
\* kinds, and the filename the auditor cites is the parser's
SameReading(filename, warn, issues) ==
    /\ \A k \in EntryKinds :
         (\E i \in 1..Len(warn) : KindOfWarning(warn[i]) = k)
         <=> (\E i \in 1..Len(issues) : issues[i].kind = k)
    /\ \A i \in 1..Len(issues) :
         issues[i].kind = "no_extension" => filename = Some(issues[i].filename)

-----------------------------------------------------------------------------
(* Claims about the order of the auditor's issues *)

\* the number of the rule, in the order of the specification, an issue is of
RuleOf(issue) ==
    IF "kind" \in DOMAIN issue
    THEN IF issue.kind = "required" THEN 1
         ELSE IF issue.kind \in {"codes_suffix", "labels_suffix", "base_mismatch"}
         THEN 3
         ELSE IF issue.kind \in {"missing_to", "missing_from", "out_of_range"}
         THEN 4
         ELSE IF issue.kind \in {"pid_format", "pid_mismatch"} THEN 5
         ELSE 6
    ELSE IF issue.msg.kind \in {"no_mapping", "no_folder", "not_found"} THEN 7
    ELSE 2

\* C25: the issues listed for one record are in the order of the rules:
\* required fields, well-formedness of every file-bearing field, codes/labels
\* agreement, date range, PID, language codes, file existence.
C25_RuleOrder ==
    (pc = "main" /\ audit.done > 0) =>
      \A i, j \in 1..Len(audit.dataset_issues) :
        i < j => RuleOf(audit.dataset_issues[i]) <= RuleOf(audit.dataset_issues[j])

-----------------------------------------------------------------------------
(* Claims about the identifiers as XML IDs *)

AsciiLetters ==
    {"a", "b", "c", "d", "e", "f", "g", "h", "i", "j", "k", "l", "m",
     "n", "o", "p", "q", "r", "s", "t", "u", "v", "w", "x", "y", "z",
     "A", "B", "C", "D", "E", "F", "G", "H", "I", "J", "K", "L", "M",
     "N", "O", "P", "Q", "R", "S", "T", "U", "V", "W", "X", "Y", "Z"}

\* C26: for every filename sanitize_xml_id returns a valid XML ID: it starts
\* with a letter or an underscore and holds only letters, digits, hyphens,
\* underscores and periods.
C26_ValidXmlId ==
    Called("sanitize_xml_id") =>
      /\ ret # <<>>
      /\ ret[1] \in AsciiLetters \cup {"_"}
      /\ \A i \in 1..Len(ret) :
           ret[i] \in AsciiLetters \cup Digits \cup {"-", "_", "."}

-----------------------------------------------------------------------------
(* Claims about the image compressor *)

\* C27: whenever compress_image returns success=False, a file exists at
\* image_path and its content is the content it had before the call, whether
\* or not a '.backup' file existed before the call.
C27_OriginalKept ==
    (Called("compress_image") /\ ~ret.success) =>
      /\ ret.fs.image.some
      /\ ret.fs.image = args.fs.image

-----------------------------------------------------------------------------
(* Claims about the identifiers within one document *)

\* the xml:id values of the media and graphic elements of the document, in
\* the order of the document
FileIdsOf(doc) ==
    LET data == [i \in 1..Len(doc.data_bibl) |-> doc.data_bibl[i].children[2]]
        files == data \o FileElementsOf(doc)
    IN  [i \in 1..Len(files) |-> files[i].attrib["xml:id"]]

\* the fields of the record whose entry has a filename
FilledFileFields(dataset) ==
    {i \in 1..Len(FileFields) : FilenameOf(Get(dataset, FileFields[i])) # <<>>}

\* C28: within one document the xml:id values of the media and graphic
\* elements of CSV Codes, CSV Labels, Zusatzdatei 1..10 and Bild 1..5 are
\* pairwise distinct whenever the filenames of those entries are pairwise
\* distinct.
C28_DistinctIds ==
    Called("create_tei_document") =>
      LET ids == FileIdsOf(ret)
          filled == FilledFileFields(args.dataset)
          Name(i) == FilenameOf(Get(args.dataset, FileFields[i]))
      IN  (\A i, j \in filled : i # j => Name(i) # Name(j))
            => \A i, j \in 1..Len(ids) : i # j => ids[i] # ids[j]

-----------------------------------------------------------------------------
(* Claims about the editors of the title statement *)

\* C30: every document has at least one editor element in its title
\* statement, for every value of 'Zitierempfehlung' (absent, empty or any
\* text).
C30_SomeEditor ==
    Called("create_tei_document") =>
      Len(WithTag(ret.title_stmt, "editor")) >= 1

-----------------------------------------------------------------------------
(* Claims about add_mixed_content *)

\* the text of an element as it is read: its own text, then the text and the
\* tail of each child, in order
RECURSIVE ChildrenText(_)
ChildrenText(children) ==
    IF children = <<>> THEN <<>>
    ELSE (IF Head(children).text.some THEN Head(children).text.val ELSE <<>>)
         \o (IF Head(children).tail.some THEN Head(children).tail.val ELSE <<>>)
         \o ChildrenText(Tail(children))
ReadingOf(element) ==
    (IF element.text.some THEN element.text.val ELSE <<>>)
    \o ChildrenText(element.children)

ItalicContents(parts) ==
    LET IsItalic(p) == p.type = "italic"
        italics == SelectSeq(parts, IsItalic)
    IN  [i \in 1..Len(italics) |-> italics[i].content]

\* C29: add_mixed_content loses no segment: for every non-empty text, the
\* parent's text, then each 'hi' child's text followed by its tail, in
\* order, is the concatenation of the segment contents of markdown_to_tei,
\* and there is one 'hi' child per italic segment, in the same order.
C29_NoSegmentLost ==
    (Called("add_mixed_content") /\ args.text # <<>>) =>
      LET parts == SegmentsOf(markdown_to_tei(args.text))
      IN  /\ ReadingOf(ret) = ConcatContents(parts)
          /\ \A i \in 1..Len(ret.children) :
               /\ ret.children[i].tag = "hi"
               /\ ret.children[i].text.some
          /\ [i \in 1..Len(ret.children) |-> ret.children[i].text.val]
               = ItalicContents(parts)

\* C29, reached: a text with plain text before and after an italic span
C29_Witness ==
    /\ Called("add_mixed_content")
    /\ ret.text.some
    /\ Len(ret.children) = 1
    /\ ret.children[1].tail.some

=============================================================================
